---- MODULE Spec2Model ----
(***************************************************************************)
(* HyperSTructureTool: the graph writer (utils/cypher_generator.py), the   *)
(* pipeline orchestrator (utils/process_text.py) and the statements they   *)
(* send to the graph store, as state machines.                             *)
(*                                                                         *)
(* Strings are atoms.  A string the code builds by concatenation is the    *)
(* sequence of its parts, and sha1(...).hexdigest()[:16] is injective: a   *)
(* hash is the sequence it was computed from.                              *)
(***************************************************************************)
EXTENDS Integers, Sequences, FiniteSets, TLC

None == "None"                      \* Python None, Cypher null

(***************************************************************************)
(* Order of strings (Python's sorted, Cypher's ORDER BY): code point order *)
(* of the atoms the model uses.                                            *)
(***************************************************************************)
CodepointOrder ==
    << "", "\"[p1]\"", "John", "Mary", "None", "O''Neil", "O'Neil", "O\\'Neil",
       "Point", "[p1]", "__NULL__", "cats", "ctx_", "dogs", "geo", "he_",
       "home", "likes", "loves", "null", "p1", "point", "pt", "t1", "t2",
       "t3", "t4", "unknown", "work", "|", "||" >>

Rank(s) == CHOOSE i \in DOMAIN CodepointOrder : CodepointOrder[i] = s

RECURSIVE LexLessFrom(_, _, _)
LexLessFrom(s, t, i) ==
    IF i > Len(s) THEN i <= Len(t)
    ELSE IF i > Len(t) THEN FALSE
    ELSE IF s[i] = t[i] THEN LexLessFrom(s, t, i + 1)
    ELSE Rank(s[i]) < Rank(t[i])

\* s < t for two strings given as sequences of atoms
LexLess(s, t) == LexLessFrom(s, t, 1)

Range(s) == {s[i] : i \in DOMAIN s}

\* sorted(list) for a list of atoms
RECURSIVE sorted(_)
sorted(s) ==
    IF s = <<>> THEN <<>>
    ELSE LET m == CHOOSE i \in DOMAIN s : \A j \in DOMAIN s : Rank(s[i]) <= Rank(s[j])
             rest == [k \in 1..(Len(s) - 1) |-> IF k < m THEN s[k] ELSE s[k + 1]]
         IN  <<s[m]>> \o sorted(rest)

\* sorted(set(ids)) for a set of hashes
RECURSIVE sorted_set(_)
sorted_set(S) ==
    IF S = {} THEN <<>>
    ELSE LET m == CHOOSE x \in S : \A y \in S : x = y \/ LexLess(x, y)
         IN  <<m>> \o sorted_set(S \ {m})

\* sep.join(parts) for parts that are sequences of atoms
RECURSIVE join(_, _)
join(sep, parts) ==
    IF parts = <<>> THEN <<>>
    ELSE IF Len(parts) = 1 THEN parts[1]
    ELSE parts[1] \o <<sep>> \o join(sep, Tail(parts))

\* a list of atoms as a list of one-atom strings
Atoms(s) == [i \in DOMAIN s |-> <<s[i]>>]

(***************************************************************************)
(* Identity and escaping                                                   *)
(***************************************************************************)
\* cypher_escape: doubles single quotes
cypher_escape(value) ==
    IF value = None THEN ""
    ELSE IF value = "O'Neil" THEN "O''Neil"
    ELSE value

\* spatial_name.replace("'", "\\'") of the append path's new-location branch
backslash_escape(value) ==
    IF value = "O'Neil" THEN "O\\'Neil" ELSE value

\* str.lower() on the strings of the model
lower(s) ==
    CASE s = "Point" -> "point"
      [] s = "Unknown" -> "unknown"
      [] s = "Actually" -> "actually"
      [] OTHER -> s

\* str.strip() on the strings of the model
strip(s) == IF s = " ? " THEN "?" ELSE IF s = " " THEN "" ELSE s

(***************************************************************************)
(* Coordinates.  form "none": None; "list": the Python list [lon, lat] of  *)
(* an input; "point": the store's native point (read back by the driver as *)
(* a Point, which is a tuple and not a list); "str": a JSON string.        *)
(***************************************************************************)
NoCoords == [form |-> "none", val |-> "null"]
ListP1   == [form |-> "list", val |-> "p1"]

\* json.dumps(coords): a tuple is written like a list, a str is quoted
json_dumps(c) ==
    CASE c.form = "none" -> "null"
      [] c.form \in {"list", "point"} -> "[p1]"
      [] OTHER -> "\"[p1]\""

\* isinstance(coords, list) and len(coords) == 2
IsList2(c) == c.form = "list"

\* coord_sig of the create and append paths
coord_sig(spatial_type, c) ==
    IF lower(spatial_type) = "point" /\ c.form # "none" /\ IsList2(c)
    THEN <<"pt", c.val>>
    ELSE <<"geo", json_dumps(c)>>

\* a key that tells an empty string from the other missing bounds
null_key_keeping_empty(t) == IF t \in {None, "null"} THEN "__NULL__" ELSE t

\* the key of a missing time bound
null_key(t) == IF t \in {None, "", "null"} THEN "__NULL__" ELSE t

\* the stored value of a time bound
null_prop(t) == IF t \in {None, "", "null"} THEN None ELSE t

\* name/type as escaped for the key: "x if x else 'unknown'"
escaped_or_unknown(v) == IF v \in {None, ""} THEN "unknown" ELSE cypher_escape(v)

\* context_id of the create path and of the append path's new-time branch:
\* "ctx_" + sha1(start|end|name|type|coord_sig)
context_id(interval, ctx) ==
    <<"ctx_", null_key(interval.start_time), null_key(interval.end_time),
      escaped_or_unknown(ctx.name), escaped_or_unknown(ctx.type)>>
    \o coord_sig(ctx.type, ctx.coordinates)

\* the value the statement stores for coordinates (build_coordinates_cypher)
build_coordinates_cypher(spatial_type, c) ==
    IF c.form = "none" THEN NoCoords
    ELSE IF lower(spatial_type) = "point" /\ IsList2(c)
    THEN [form |-> "point", val |-> c.val]
    ELSE [form |-> "str", val |-> json_dumps(c)]

(***************************************************************************)
(* The graph store: Node, Context and Hyperedge nodes, CONNECTS edges      *)
(* (CREATE can make parallel edges, so each edge has a multiplicity) and   *)
(* VALID_IN edges.                                                         *)
(***************************************************************************)
EmptyGraph ==
    [Node |-> {}, Context |-> <<>>, Hyperedge |-> <<>>, CONNECTS |-> <<>>,
     VALID_IN |-> {}]

Put(f, k, v) == [x \in (DOMAIN f) \cup {k} |-> IF x = k THEN v ELSE f[x]]

RECURSIVE SumOver(_, _)
SumOver(f, S) ==
    IF S = {} THEN 0
    ELSE LET x == CHOOSE y \in S : TRUE IN f[x] + SumOver(f, S \ {x})

EdgesOf(g, h) == {e \in DOMAIN g.CONNECTS : e[1] = h}
\* count((h)-[:CONNECTS]->(:Node))
ConnectsCount(g, h) == SumOver(g.CONNECTS, EdgesOf(g, h))
\* collect(DISTINCT n.id) over (h)-[:CONNECTS {role}]->(n)
RoleIds(g, h, role) == {e[3] : e \in {x \in EdgesOf(g, h) : x[2] = role}}
SubjIds(g, h) == RoleIds(g, h, "subject")
ObjIds(g, h) == RoleIds(g, h, "object")
ContextsOf(g, h) == {v[2] : v \in {x \in g.VALID_IN : x[1] = h}}

\* MERGE (c:Context {id}) ON CREATE SET ...
MergeContext(ctxs, id, props) == IF id \in DOMAIN ctxs THEN ctxs ELSE Put(ctxs, id, props)

\* MERGE of one CONNECTS edge, CREATE of one CONNECTS edge
MergeEdge(conn, e) == IF e \in DOMAIN conn THEN conn ELSE Put(conn, e, 1)
CreateEdge(conn, e) == IF e \in DOMAIN conn THEN Put(conn, e, conn[e] + 1) ELSE Put(conn, e, 1)

RECURSIVE MergeEdges(_, _, _, _)
MergeEdges(conn, h, role, list) ==
    IF list = <<>> THEN conn
    ELSE MergeEdges(MergeEdge(conn, <<h, role, Head(list)>>), h, role, Tail(list))

RECURSIVE CreateEdges(_, _, _, _)
CreateEdges(conn, h, role, list) ==
    IF list = <<>> THEN conn
    ELSE CreateEdges(CreateEdge(conn, <<h, role, Head(list)>>), h, role, Tail(list))

RECURSIVE MergeContexts(_, _)
\* MERGE of the contexts of a list of <<id, props>>
MergeContexts(ctxs, list) ==
    IF list = <<>> THEN ctxs
    ELSE MergeContexts(MergeContext(ctxs, Head(list)[1], Head(list)[2]), Tail(list))

(***************************************************************************)
(* Create path of generate_cypher_from_structured_output (temporal_fact)   *)
(***************************************************************************)
UnknownCtx == [name |-> "unknown", type |-> "unknown", coordinates |-> NoCoords]

\* the (interval, spatial context) pairs of two nested loops, in loop order
Pairs(T, L) ==
    [k \in 1..(Len(T) * Len(L)) |->
        <<T[((k - 1) \div Len(L)) + 1], L[((k - 1) % Len(L)) + 1]>>]

\* the properties ON CREATE SET gives a context of the create path
create_context_props(interval, ctx) ==
    [from_time |-> null_prop(interval.start_time),
     to_time |-> null_prop(interval.end_time),
     location_name |-> ctx.name,
     spatial_type |-> ctx.type,
     coordinates |-> build_coordinates_cypher(ctx.type, ctx.coordinates)]

\* the contexts the create path MERGEs, as <<id, props>>, in loop order
create_contexts(T, L) ==
    LET P == Pairs(T, IF L = <<>> THEN <<UnknownCtx>> ELSE L)
    IN  [k \in DOMAIN P |->
            <<context_id(P[k][1], P[k][2]), create_context_props(P[k][1], P[k][2])>>]

\* hyperedge_key_str with the subjects left in input order
hyperedge_key_unsorted_subjects(relation_type, subjects, objects, context_ids) ==
    join("||", << <<cypher_escape(relation_type)>>,
                  join("|", Atoms([i \in DOMAIN subjects |-> cypher_escape(subjects[i])])),
                  join("|", Atoms([i \in DOMAIN sorted(objects) |-> cypher_escape(sorted(objects)[i])])),
                  join("|", sorted_set(Range(context_ids))) >>)

\* hyperedge_key_str and deterministic_he_id
hyperedge_key(relation_type, subjects, objects, context_ids) ==
    join("||", << <<cypher_escape(relation_type)>>,
                  join("|", Atoms([i \in DOMAIN sorted(subjects) |-> cypher_escape(sorted(subjects)[i])])),
                  join("|", Atoms([i \in DOMAIN sorted(objects) |-> cypher_escape(sorted(objects)[i])])),
                  join("|", sorted_set(Range(context_ids))) >>)

deterministic_he_id(relation_type, subjects, objects, context_ids) ==
    <<"he_">> \o hyperedge_key(relation_type, subjects, objects, context_ids)

\* the id the create path gives the hyperedge of a fact
fact_he_id(F) ==
    LET cs == create_contexts(F.temporal_intervals, F.spatial_contexts)
    IN  deterministic_he_id(F.relation_type, F.subjects, F.objects,
                            [k \in DOMAIN cs |-> cs[k][1]])

\* the statement of the create path, executed on graph g
create_hyperedge(g, F) ==
    LET cs == create_contexts(F.temporal_intervals, F.spatial_contexts)
        h == fact_he_id(F)
        entity_count == Len(F.subjects) + Len(F.objects)
    IN  [Node |-> g.Node \cup Range(F.subjects) \cup Range(F.objects),
         Context |-> MergeContexts(g.Context, cs),
         Hyperedge |->
            IF h \in DOMAIN g.Hyperedge THEN g.Hyperedge
            ELSE Put(g.Hyperedge, h,
                     [relation_type |-> F.relation_type, entity_count |-> entity_count]),
         CONNECTS |-> MergeEdges(MergeEdges(g.CONNECTS, h, "subject", F.subjects),
                                 h, "object", F.objects),
         VALID_IN |-> g.VALID_IN \cup {<<h, cs[k][1]>> : k \in DOMAIN cs}]

(***************************************************************************)
(* _find_appendable_hyperedge: the three probes and the full fetch         *)
(***************************************************************************)
coalesce(v) == IF v = None THEN "__NULL__" ELSE v

\* size(ids) = size($list) AND all(x IN ids WHERE x IN $list) AND all(x IN $list WHERE x IN ids)
ListEqSet(list, ids) == Cardinality(ids) = Len(list) /\ ids = Range(list)

\* temporal_times_coalesced and spatial_names_coalesced
temporal_times(T) == [i \in DOMAIN T |-> <<coalesce(T[i].start_time), coalesce(T[i].end_time)>>]
spatial_names(L) == [i \in DOMAIN L |-> coalesce(L[i].name)]

\* collect(DISTINCT [coalesce(c.from_time), coalesce(c.to_time)]) and
\* collect(DISTINCT coalesce(c2.location_name)) over the contexts of h
contextTimes(g, h) ==
    {<<coalesce(g.Context[c].from_time), coalesce(g.Context[c].to_time)>> : c \in ContextsOf(g, h)}
contextNames(g, h) == {coalesce(g.Context[c].location_name) : c \in ContextsOf(g, h)}

relation_match(g, h, F) == g.Hyperedge[h].relation_type = F.relation_type

objects_match(g, h, F) ==
    IF F.objects # <<>> THEN ListEqSet(F.objects, ObjIds(g, h)) ELSE ObjIds(g, h) = {}

subjects_match(g, h, F) == ListEqSet(F.subjects, SubjIds(g, h))

contexts_match(g, h, F) ==
    /\ F.temporal_intervals # <<>> =>
            ListEqSet(temporal_times(F.temporal_intervals), contextTimes(g, h))
    /\ F.spatial_contexts # <<>> =>
            ListEqSet(spatial_names(F.spatial_contexts), contextNames(g, h))

\* the hyperedges the probe of one criterion matches
criterion_matches(g, F, criterion) ==
    {h \in DOMAIN g.Hyperedge :
        /\ relation_match(g, h, F)
        /\ CASE criterion = 1 -> objects_match(g, h, F) /\ contexts_match(g, h, F)
             [] criterion = 2 -> F.subjects # <<>> /\ subjects_match(g, h, F) /\ objects_match(g, h, F)
             [] OTHER -> F.subjects # <<>> /\ subjects_match(g, h, F) /\ contexts_match(g, h, F)}

\* ORDER BY h.id LIMIT 1
first_by_id(S) == CHOOSE h \in S : \A k \in S : h = k \/ LexLess(h, k)

\* the full fetch returns a row only for a hyperedge with a subject, an object and a context
full_record(g, h) == SubjIds(g, h) # {} /\ ObjIds(g, h) # {} /\ ContextsOf(g, h) # {}

existing_temporal(g, h) ==
    {[start_time |-> g.Context[c].from_time, end_time |-> g.Context[c].to_time] : c \in ContextsOf(g, h)}
existing_spatial(g, h) ==
    {[name |-> g.Context[c].location_name, type |-> g.Context[c].spatial_type,
      coordinates |-> g.Context[c].coordinates] : c \in ContextsOf(g, h)}

\* the criteria that end in a returned hyperedge
returning_criteria(g, F) ==
    {k \in 1..3 : criterion_matches(g, F, k) # {}
                    /\ full_record(g, first_by_id(criterion_matches(g, F, k)))}

NoHyperedge == [found |-> FALSE, id |-> <<>>, append_criterion |-> 0]

find_appendable_hyperedge(g, F) ==
    LET ks == returning_criteria(g, F)
    IN  IF ks = {} THEN NoHyperedge
        ELSE LET k == CHOOSE x \in ks : \A y \in ks : x <= y
             IN  [found |-> TRUE, id |-> first_by_id(criterion_matches(g, F, k)),
                  append_criterion |-> k]

(***************************************************************************)
(* _generate_append_cypher: the statement that appends to a hyperedge the  *)
(* probe returned                                                          *)
(***************************************************************************)
\* the value of a quoted literal: the store undoes either escaping
cypher_literal(e) == IF e \in {"O''Neil", "O\\'Neil"} THEN "O'Neil" ELSE e

\* a collected list, in some order
RECURSIVE SetToSeq(_)
SetToSeq(S) ==
    IF S = {} THEN <<>>
    ELSE LET x == CHOOSE y \in S : TRUE IN <<x>> \o SetToSeq(S \ {x})

\* [x for x in list if x not in existing]
not_in(list, existing) == SelectSeq(list, LAMBDA x : x \notin existing)

\* name/type as escaped by the new-location branch
backslash_or_unknown(v) == IF v \in {None, ""} THEN "unknown" ELSE backslash_escape(v)

\* context_id of the append path's new-location branch
context_id_new_spatial(interval, ctx) ==
    <<"ctx_", null_key(interval.start_time), null_key(interval.end_time),
      backslash_or_unknown(ctx.name), backslash_or_unknown(ctx.type)>>
    \o coord_sig(ctx.type, ctx.coordinates)

\* the properties ON CREATE SET gives a context of the append path
append_context_props(interval, ctx, ename, etype) ==
    [from_time |-> null_prop(interval.start_time),
     to_time |-> null_prop(interval.end_time),
     location_name |-> cypher_literal(ename),
     spatial_type |-> cypher_literal(etype),
     coordinates |-> build_coordinates_cypher(ctx.type, ctx.coordinates)]

\* contexts for new_temporal x (existing_spatial + spatial_contexts)
append_new_temporal(g, h, F) ==
    LET new_temporal == not_in(F.temporal_intervals, existing_temporal(g, h))
        all_spatial == SetToSeq(existing_spatial(g, h)) \o F.spatial_contexts
        P == Pairs(new_temporal, IF all_spatial = <<>> THEN <<UnknownCtx>> ELSE all_spatial)
    IN  [k \in DOMAIN P |->
            <<context_id(P[k][1], P[k][2]),
              append_context_props(P[k][1], P[k][2], escaped_or_unknown(P[k][2].name),
                                   escaped_or_unknown(P[k][2].type))>>]

\* contexts for (existing_temporal + temporal_intervals) x new_spatial
append_new_spatial(g, h, F) ==
    LET new_spatial == not_in(F.spatial_contexts, existing_spatial(g, h))
        all_temporal == SetToSeq(existing_temporal(g, h)) \o F.temporal_intervals
        P == Pairs(all_temporal, new_spatial)
    IN  [k \in DOMAIN P |->
            <<context_id_new_spatial(P[k][1], P[k][2]),
              append_context_props(P[k][1], P[k][2], backslash_or_unknown(P[k][2].name),
                                   backslash_or_unknown(P[k][2].type))>>]

\* WITH h MATCH (h)-[:CONNECTS]->(n) WITH h, count(n) AS ec SET h.entity_count = ec:
\* no row, and no SET, when h has no CONNECTS edge
set_entity_count(hyperedges, h, ec) ==
    IF ec = 0 THEN hyperedges
    ELSE [hyperedges EXCEPT ![h] = [@ EXCEPT !.entity_count = ec]]

\* the statement _generate_append_cypher returns for hyperedge h, computed
\* from what the full fetch read in graph g
append_statement(g, h, F) ==
    [kind |-> "append", h |-> h, fact |-> F,
     new_subjects |-> not_in(F.subjects, SubjIds(g, h)),
     new_objects |-> not_in(F.objects, ObjIds(g, h)),
     contexts |-> append_new_temporal(g, h, F) \o append_new_spatial(g, h, F)]

\* the statement of the create path
create_statement(F) ==
    [kind |-> "create", h |-> fact_he_id(F), fact |-> F, new_subjects |-> <<>>,
     new_objects |-> <<>>, contexts |-> <<>>]

\* the "" the generator yields when building the statement raised
EmptyStatement(F) ==
    [kind |-> "empty", h |-> <<>>, fact |-> F, new_subjects |-> <<>>, new_objects |-> <<>>,
     contexts |-> <<>>]

\* a JSON null where an interval is expected
NullEntry == [null |-> TRUE]

\* a fact with a null among its temporal_intervals: interval.get raises in
\* the probe, which then returns None, and again in the create path
malformed(F) == \E i \in DOMAIN F.temporal_intervals : F.temporal_intervals[i] = NullEntry

\* generate_cypher_from_structured_output for one temporal fact, reading graph g
generate_cypher(g, F) ==
    IF malformed(F) THEN EmptyStatement(F)
    ELSE LET existing_hyperedge == find_appendable_hyperedge(g, F)
         IN  IF existing_hyperedge.found THEN append_statement(g, existing_hyperedge.id, F)
             ELSE create_statement(F)

\* an append that replaces the VALID_IN edges of the hyperedge by the new ones
execute_append_replacing_contexts(g, st) ==
    LET h == st.h
        cs == st.contexts
        conn == CreateEdges(CreateEdges(g.CONNECTS, h, "subject", st.new_subjects),
                            h, "object", st.new_objects)
        g1 == [Node |-> g.Node \cup Range(st.new_subjects) \cup Range(st.new_objects),
               Context |-> MergeContexts(g.Context, cs),
               Hyperedge |-> g.Hyperedge,
               CONNECTS |-> conn,
               VALID_IN |-> IF cs = <<>> THEN g.VALID_IN
                            ELSE {v \in g.VALID_IN : v[1] # h}
                                    \cup {<<h, cs[k][1]>> : k \in DOMAIN cs}]
    IN  [g1 EXCEPT !.Hyperedge = set_entity_count(g.Hyperedge, h, ConnectsCount(g1, h))]

\* the append statement, executed on graph g
execute_append(g, st) ==
    LET h == st.h
        cs == st.contexts
        conn == CreateEdges(CreateEdges(g.CONNECTS, h, "subject", st.new_subjects),
                            h, "object", st.new_objects)
        g1 == [Node |-> g.Node \cup Range(st.new_subjects) \cup Range(st.new_objects),
               Context |-> MergeContexts(g.Context, cs),
               Hyperedge |-> g.Hyperedge,
               CONNECTS |-> conn,
               VALID_IN |-> g.VALID_IN \cup {<<h, cs[k][1]>> : k \in DOMAIN cs}]
    IN  [g1 EXCEPT !.Hyperedge = set_entity_count(g.Hyperedge, h, ConnectsCount(g1, h))]

\* a statement of a temporal fact, executed on graph g
execute_statement(g, st) ==
    IF st.kind = "append" THEN execute_append(g, st)
    ELSE IF st.kind = "create" THEN create_hyperedge(g, st.fact)
    ELSE g

\* one temporal fact generated and executed with nothing in between
ingest_fact(g, F) == execute_statement(g, generate_cypher(g, F))

(***************************************************************************)
(* The modification statement of generate_cypher_from_structured_output.   *)
(* A modification M has affected (subjects, objects, relation_type), keys  *)
(* (the keys present in modify_fields_to) and one value per key.  A        *)
(* statement runs clause by clause over rows; with no row, nothing is      *)
(* written.                                                                *)
(***************************************************************************)
\* the hyperedges the leading MATCH ... WITH ... WHERE keeps, one row each
mod_matched(g, M) ==
    {h \in DOMAIN g.Hyperedge :
        /\ g.Hyperedge[h].relation_type = M.affected.relation_type
        /\ SubjIds(g, h) # {}
        /\ Cardinality(SubjIds(g, h)) = Len(M.affected.subjects)
        /\ SubjIds(g, h) = Range(M.affected.subjects)
        /\ IF M.affected.objects # <<>>
           THEN /\ Cardinality(ObjIds(g, h)) = Len(M.affected.objects)
                /\ ObjIds(g, h) = Range(M.affected.objects)
           ELSE ObjIds(g, h) = {}}

\* SET h.relation_type = $new_rel
mod_set_relation(g, M, H) ==
    IF "relation_type" \in M.keys
    THEN [g EXCEPT !.Hyperedge =
            [h \in DOMAIN g.Hyperedge |->
                IF h \in H THEN [g.Hyperedge[h] EXCEPT !.relation_type = M.relation_type]
                ELSE g.Hyperedge[h]]]
    ELSE g

\* the first start_time / end_time that is neither None nor ''
RECURSIVE first_start(_)
first_start(T) ==
    IF T = <<>> THEN None
    ELSE IF Head(T).start_time \notin {None, ""} THEN Head(T).start_time
    ELSE first_start(Tail(T))

RECURSIVE first_end(_)
first_end(T) ==
    IF T = <<>> THEN None
    ELSE IF Head(T).end_time \notin {None, ""} THEN Head(T).end_time
    ELSE first_end(Tail(T))

new_from(M) == IF "temporal_intervals" \in M.keys THEN first_start(M.temporal_intervals) ELSE None
new_to(M) == IF "temporal_intervals" \in M.keys THEN first_end(M.temporal_intervals) ELSE None

has_sc0(M) == "spatial_contexts" \in M.keys /\ M.spatial_contexts # <<>>
new_name(M) == IF has_sc0(M) THEN M.spatial_contexts[1].name ELSE None
new_type(M) == IF has_sc0(M) THEN M.spatial_contexts[1].type ELSE None
new_coords(M) == IF has_sc0(M) THEN M.spatial_contexts[1].coordinates ELSE NoCoords

temporal_given(M) == new_from(M) # None \/ new_to(M) # None
spatial_given(M) == new_name(M) # None \/ new_type(M) # None \/ new_coords(M).form # "none"

\* "x or 'unknown'", escaped
escaped_name_or_unknown(v) == cypher_escape(IF v \in {None, ""} THEN "unknown" ELSE v)

\* new_ctx_id of the modification path: "ctx_" + sha1(start|name|type|coord_sig|end)
mod_new_ctx_id(M) ==
    <<"ctx_", null_key(new_from(M)), escaped_name_or_unknown(new_name(M)),
      escaped_name_or_unknown(new_type(M))>>
    \o coord_sig(IF new_type(M) = None THEN "" ELSE new_type(M), new_coords(M))
    \o <<null_key(new_to(M))>>

mod_new_ctx_props(M) ==
    [from_time |-> null_prop(new_from(M)),
     to_time |-> null_prop(new_to(M)),
     location_name |-> cypher_literal(escaped_name_or_unknown(new_name(M))),
     spatial_type |-> cypher_literal(escaped_name_or_unknown(new_type(M))),
     coordinates |-> build_coordinates_cypher(IF new_type(M) = None THEN "" ELSE new_type(M),
                                              new_coords(M))]

\* the rewiring without its last clause: old contexts are left behind
mod_rewire_contexts_keep_orphans(g, M, H) ==
    IF H = {} THEN g
    ELSE LET new_ctx == mod_new_ctx_id(M)
             valid_in == {x \in g.VALID_IN : x[1] \notin H} \cup {<<h, new_ctx>> : h \in H}
         IN  [g EXCEPT !.Context = MergeContext(g.Context, new_ctx, mod_new_ctx_props(M)),
                       !.VALID_IN = valid_in]

\* MERGE new_ctx, MERGE (h)-[:VALID_IN]->(new_ctx), DELETE the other VALID_IN
\* edges of h, DETACH DELETE every old context no VALID_IN edge points to
mod_rewire_contexts(g, M, H) ==
    IF H = {} THEN g
    ELSE LET new_ctx == mod_new_ctx_id(M)
             oldC == {v[2] : v \in {x \in g.VALID_IN : x[1] \in H /\ x[2] # new_ctx}}
             valid_in == {x \in g.VALID_IN : x[1] \notin H} \cup {<<h, new_ctx>> : h \in H}
             orphans == {c \in oldC : \A x \in valid_in : x[2] # c}
             ctxs == MergeContext(g.Context, new_ctx, mod_new_ctx_props(M))
         IN  [g EXCEPT !.Context = [c \in (DOMAIN ctxs) \ orphans |-> ctxs[c]],
                       !.VALID_IN = valid_in]

\* the legacy SETs on the contexts attached to the matched hyperedges
legacy_temporal(c, M) ==
    [c EXCEPT !.from_time = IF new_from(M) # None THEN new_from(M) ELSE @,
              !.to_time = IF new_to(M) = None THEN @
                          ELSE IF new_to(M) = "null" THEN None ELSE new_to(M)]

legacy_coordinates(M) ==
    IF IsList2(new_coords(M)) /\ new_type(M) # None /\ lower(new_type(M)) = "point"
    THEN [form |-> "point", val |-> new_coords(M).val]
    ELSE [form |-> "str", val |-> json_dumps(new_coords(M))]

legacy_spatial(c, M) ==
    [c EXCEPT !.location_name = IF new_name(M) # None THEN new_name(M) ELSE @,
              !.spatial_type = IF new_type(M) # None THEN new_type(M) ELSE @,
              !.coordinates = IF new_coords(M).form # "none" THEN legacy_coordinates(M) ELSE @]

mod_set_contexts(g, M, H) ==
    LET attached == {v[2] : v \in {x \in g.VALID_IN : x[1] \in H}}
    IN  [g EXCEPT !.Context =
            [c \in DOMAIN g.Context |->
                IF c \notin attached THEN g.Context[c]
                ELSE IF temporal_given(M) THEN legacy_temporal(g.Context[c], M)
                ELSE IF spatial_given(M) THEN legacy_spatial(g.Context[c], M)
                ELSE g.Context[c]]]

\* contexts: one new context when both a time and a place are given, else SET in place
mod_contexts(g, M, H) ==
    IF temporal_given(M) /\ spatial_given(M) THEN mod_rewire_contexts(g, M, H)
    ELSE mod_set_contexts(g, M, H)

\* number of times x occurs in list
Occurrences(list, x) == Cardinality({i \in DOMAIN list : list[i] = x})

\* rows of h after OPTIONAL MATCH (h)-[r:CONNECTS {role}]->(): one per edge, one if none
rows_after(g, h, role, rows) ==
    LET k == SumOver(g.CONNECTS, {e \in EdgesOf(g, h) : e[2] = role})
    IN  rows * (IF k = 0 THEN 1 ELSE k)

\* as mod_rewire_role, but the new entities are MERGEd whether or not the
\* leading MATCH has left a row
mod_rewire_role_without_rows(g, H, role, new_list, rows) ==
    LET kept == {e \in DOMAIN g.CONNECTS : ~(e[1] \in H /\ e[2] = role)}
        made == {<<h, role, n>> : h \in H, n \in Range(new_list)}
    IN  [g EXCEPT !.Node = g.Node \cup Range(new_list),
                  !.CONNECTS =
                      [e \in kept \cup made |->
                          IF e \in made
                          THEN rows_after(g, e[1], role, rows[e[1]]) * Occurrences(new_list, e[3])
                          ELSE g.CONNECTS[e]]]

\* OPTIONAL MATCH ... DELETE r, then per row and per new entity MERGE node, CREATE edge
mod_rewire_role(g, H, role, new_list, rows) ==
    LET kept == {e \in DOMAIN g.CONNECTS : ~(e[1] \in H /\ e[2] = role)}
        made == {<<h, role, n>> : h \in H, n \in Range(new_list)}
    IN  [g EXCEPT !.Node = IF H = {} THEN g.Node ELSE g.Node \cup Range(new_list),
                  !.CONNECTS =
                      [e \in kept \cup made |->
                          IF e \in made
                          THEN rows_after(g, e[1], role, rows[e[1]]) * Occurrences(new_list, e[3])
                          ELSE g.CONNECTS[e]]]

\* WITH h MATCH (h)-[:CONNECTS]->(n) WITH h, count(n) AS ec SET h.entity_count = ec
mod_entity_count(g, H, rows) ==
    [g EXCEPT !.Hyperedge =
        [h \in DOMAIN g.Hyperedge |->
            IF h \in H /\ ConnectsCount(g, h) > 0
            THEN [g.Hyperedge[h] EXCEPT !.entity_count = rows[h] * ConnectsCount(g, h)]
            ELSE g.Hyperedge[h]]]

mod_rewire(g, M, H) ==
    LET rows0 == [h \in H |-> 1]
        g1 == IF "subjects" \in M.keys THEN mod_rewire_role(g, H, "subject", M.subjects, rows0) ELSE g
        rows1 == IF "subjects" \in M.keys
                 THEN [h \in H |-> rows_after(g, h, "subject", 1)] ELSE rows0
        g2 == IF "objects" \in M.keys THEN mod_rewire_role(g1, H, "object", M.objects, rows1) ELSE g1
        rows2 == IF "objects" \in M.keys
                 THEN [h \in H |-> rows_after(g1, h, "object", rows1[h])] ELSE rows1
    IN  IF "subjects" \in M.keys \/ "objects" \in M.keys THEN mod_entity_count(g2, H, rows2)
        ELSE g

\* the modification statement, executed on graph g
apply_modification(g, M) ==
    LET H == mod_matched(g, M)
    IN  mod_rewire(mod_contexts(mod_set_relation(g, M, H), M, H), M, H)

(***************************************************************************)
(* Inputs of the graph writer                                              *)
(***************************************************************************)
MaxOps == 3            \* statements sent to the store in one behaviour

Interval(s, e) == [start_time |-> s, end_time |-> e]
I1 == Interval("t1", "t2")
I2 == Interval("t3", None)
Home == [name |-> "home", type |-> "Point", coordinates |-> ListP1]

\* temporal facts as the generator receives them (sanitise_fact keeps a repeated entity)
Facts ==
    [subjects : {<<"John">>, <<"Mary">>, <<"John", "John">>},
     objects : {<<>>, <<"cats">>, <<"dogs">>},
     relation_type : {"likes"},
     temporal_intervals : {<<I1>>, <<I2>>, <<I1, I2>>},
     spatial_contexts : {<<>>, <<Home>>}]
    \cup
    \* facts with an empty temporal_intervals list
    [subjects : {<<"John">>}, objects : {<<"cats">>}, relation_type : {"likes"},
     temporal_intervals : {<<>>}, spatial_contexts : {<<>>, <<Home>>}]

AffectedFacts ==
    [subjects : {<<"John">>, <<"Mary">>}, objects : {<<>>, <<"cats">>}, relation_type : {"likes"}]

Modification(a, keys, rel, T, L, subjects, objects) ==
    [affected |-> a, keys |-> keys, relation_type |-> rel, temporal_intervals |-> T,
     spatial_contexts |-> L, subjects |-> subjects, objects |-> objects]

\* modifications: one aspect each, or a time together with a place
Modifications ==
    UNION {
        { Modification(a, {"relation_type"}, "loves", <<>>, <<>>, <<>>, <<>>),
          Modification(a, {"temporal_intervals"}, "", <<I1>>, <<>>, <<>>, <<>>),
          Modification(a, {"spatial_contexts"}, "", <<>>, <<Home>>, <<>>, <<>>),
          Modification(a, {"temporal_intervals", "spatial_contexts"}, "", <<I2>>, <<Home>>, <<>>, <<>>),
          Modification(a, {"subjects"}, "", <<>>, <<>>, <<"Mary">>, <<>>),
          Modification(a, {"subjects"}, "", <<>>, <<>>, <<>>, <<>>),
          Modification(a, {"objects"}, "", <<>>, <<>>, <<>>, <<"dogs">>),
          Modification(a, {"objects"}, "", <<>>, <<>>, <<>>, <<>>) } : a \in AffectedFacts }
    \cup
    \* the subjects of a fact with two subjects are set
    { Modification([subjects |-> <<"John", "Mary">>, objects |-> <<"cats">>,
                    relation_type |-> "likes"],
                   {"subjects"}, "", <<>>, <<>>, <<"Mary">>, <<>>) }

(***************************************************************************)
(* The store under a sequence of statements.  execute_cypher runs one      *)
(* statement in one auto-commit transaction: it returns True and the       *)
(* statement has taken effect, or it returns False and nothing has.        *)
(***************************************************************************)
VARIABLES
    graph,                      \* the store
    last,                       \* the last statement sent: its kind, its result, what it matched
    ops,                        \* statements sent so far
    fact, fact0,                \* a fact under reordering, and as first given
    text_to_cypher_pipeline,    \* "pipeline", or None when initialisation raised
    pc,                         \* position of chunking_streaming_pipeline
    modification_text,          \* the modifications the modification sentences state
    modification_facts,
    task,                       \* the sentence tasks
    all_structured_data,
    successful_temporal_facts,
    failed_temporal_facts,
    structured_state_facts,     \* the state facts extract_structured_state_facts returned
    state_fact_statements,      \* StateChangeEvent statements generated so far
    state_fact_fail_count,      \* state-fact statements execute_cypher returned False for
    state_change_events,        \* the StateChangeEvent nodes of the store, with their edges
    applied_modifications,      \* modifications the run has sent to the store
    write_failed,               \* a temporal-fact write returned False or raised
    inference_started,          \* the gate has let causal inference begin
    openai_api_key,             \* OPENAI_API_KEY is set
    queue,                      \* the events run_pipeline has put on the queue, counted
    place,                      \* the first place of the Nominatim reply
    results,                    \* what expand_spatial returns, <<>> before it has
    current_time, start_time, end_time,     \* the arguments of is_time_within_range
    within,                     \* what it returns, <<>> before it has
    text,                       \* the input of detect_modification_sentences
    detected,                   \* the tuple it returns, <<>> before it has
    ingested,                   \* the intervals ingested so far, as they were written
    sse_queue,                  \* the asyncio.Queue of event_generator
    done,                       \* the asyncio.Event run_pipeline sets
    put,                        \* every event put on the queue, in order
    yielded,                    \* the events event_generator has yielded
    run_pipeline,               \* position of the producer task
    event_generator,            \* position of the consumer
    handle,                     \* the module-level text_to_cypher_pipeline of main.py, <<>> when None
    request,                    \* the endpoint of the request under way, and its position
    responses,                  \* the requests served so far: endpoint and status
    live,                       \* connections established for the module-level handle
    max_loops,                  \* the max_loops argument of _run_function_calling_loop
    loop_idx,                   \* its loop_idx
    trace,                      \* its trace
    executed,                   \* calls of execute_tool it has made
    validations,                \* the is_valid of each iteration that reached the validator
    calling,                    \* its position: "idle", "select", "execute", "validate", "returned", "raised"
    returned,                   \* what it returned, <<>> before it has
    tool_arguments,             \* the arguments of the last query_facts call, <<>> before one is made
    filtered_ids,               \* what query_spatiotemporal returned to it
    tool_result                 \* the ids of the facts it returned

graphVars == <<graph, last, ops>>
idVars == <<fact, fact0>>
geoVars == <<place, results>>
timeVars == <<current_time, start_time, end_time, within>>
pipeVars ==
    <<text_to_cypher_pipeline, pc, modification_text, modification_facts, task,
      all_structured_data, successful_temporal_facts, failed_temporal_facts,
      structured_state_facts, state_fact_statements, state_fact_fail_count,
      state_change_events, applied_modifications,
      write_failed, inference_started, openai_api_key, queue>>
detectVars == <<text, detected>>
nullVars == <<ingested>>
streamVars == <<sse_queue, done, put, yielded, run_pipeline, event_generator>>
lazyVars == <<handle, request, responses, live>>
loopVars == <<max_loops, loop_idx, trace, executed, validations, calling, returned>>
queryVars == <<tool_arguments, filtered_ids, tool_result>>
moreVars == <<detectVars, nullVars, streamVars, lazyVars, loopVars, queryVars>>
exceptDetect == <<nullVars, streamVars, lazyVars, loopVars, queryVars>>
exceptNull == <<detectVars, streamVars, lazyVars, loopVars, queryVars>>
exceptStream == <<detectVars, nullVars, lazyVars, loopVars, queryVars>>
exceptLazy == <<detectVars, nullVars, streamVars, loopVars, queryVars>>
exceptLoop == <<detectVars, nullVars, streamVars, lazyVars, queryVars>>
exceptQuery == <<detectVars, nullVars, streamVars, lazyVars, loopVars>>
oldVars == <<graphVars, idVars, geoVars, timeVars, pipeVars>>
vars == <<oldVars, moreVars>>

\* the variables of the other state machines, at rest
IdAtRest ==
    /\ fact = [subjects |-> <<>>, objects |-> <<>>, relation_type |-> "",
               temporal_intervals |-> <<>>, spatial_contexts |-> <<>>]
    /\ fact0 = fact

\* the queue of run_pipeline before anything is put on it
NoEvents == [complete |-> 0, error |-> 0]

PipeAtRest ==
    /\ text_to_cypher_pipeline = None
    /\ pc = "idle"
    /\ modification_text = {}
    /\ modification_facts = <<>>
    /\ task = <<>>
    /\ all_structured_data = <<>>
    /\ successful_temporal_facts = <<>>
    /\ failed_temporal_facts = <<>>
    /\ structured_state_facts = <<>>
    /\ state_fact_statements = 0
    /\ state_fact_fail_count = 0
    /\ state_change_events = <<>>
    /\ applied_modifications = {}
    /\ write_failed = FALSE
    /\ inference_started = FALSE
    /\ openai_api_key = TRUE
    /\ queue = NoEvents

\* no geocoding request under way
NoPlace == [type |-> "None", coordinates |-> <<>>]

GeoAtRest ==
    /\ place = NoPlace
    /\ results = <<>>

\* no call of is_time_within_range under way; <<>> is None
TimeAtRest ==
    /\ current_time = <<0>>
    /\ start_time = <<>>
    /\ end_time = <<>>
    /\ within = <<>>

\* no call of detect_modification_sentences under way
DetectAtRest ==
    /\ text = <<>>
    /\ detected = <<>>

\* no fact with a missing time bound ingested
NullAtRest ==
    /\ ingested = <<>>

\* no progress stream open
StreamAtRest ==
    /\ sse_queue = <<>>
    /\ done = FALSE
    /\ put = <<>>
    /\ yielded = <<>>
    /\ run_pipeline = "finished"
    /\ event_generator = "ended"

\* no request served by the backend
LazyAtRest ==
    /\ handle = <<>>
    /\ request = [endpoint |-> "none", at |-> "idle"]
    /\ responses = <<>>
    /\ live = 0

\* no call of _run_function_calling_loop under way
LoopAtRest ==
    /\ max_loops = 0
    /\ loop_idx = 0
    /\ trace = <<>>
    /\ executed = 0
    /\ validations = <<>>
    /\ calling = "idle"
    /\ returned = <<>>

\* no call of the query_facts tool made
QueryAtRest ==
    /\ tool_arguments = <<>>
    /\ filtered_ids = {}
    /\ tool_result = {}

MoreAtRest == DetectAtRest /\ NullAtRest /\ StreamAtRest /\ LazyAtRest /\ LoopAtRest /\ QueryAtRest
ExceptDetectAtRest == NullAtRest /\ StreamAtRest /\ LazyAtRest /\ LoopAtRest /\ QueryAtRest
ExceptNullAtRest == DetectAtRest /\ StreamAtRest /\ LazyAtRest /\ LoopAtRest /\ QueryAtRest
ExceptStreamAtRest == DetectAtRest /\ NullAtRest /\ LazyAtRest /\ LoopAtRest /\ QueryAtRest
ExceptLazyAtRest == DetectAtRest /\ NullAtRest /\ StreamAtRest /\ LoopAtRest /\ QueryAtRest
ExceptLoopAtRest == DetectAtRest /\ NullAtRest /\ StreamAtRest /\ LazyAtRest /\ QueryAtRest
ExceptQueryAtRest == DetectAtRest /\ NullAtRest /\ StreamAtRest /\ LazyAtRest /\ LoopAtRest

GraphAtRest ==
    /\ graph = EmptyGraph
    /\ last = [op |-> "none", ok |-> FALSE, removed |-> FALSE, matched |-> FALSE]
    /\ ops = 0

InitGraph == GraphAtRest /\ IdAtRest /\ PipeAtRest /\ GeoAtRest /\ TimeAtRest /\ MoreAtRest

\* a temporal fact is written: execute_cypher returns True
IngestFact ==
    /\ ops < MaxOps
    /\ \E F \in Facts :
        /\ graph' = ingest_fact(graph, F)
        /\ last' = [op |-> "ingest", ok |-> TRUE, removed |-> FALSE, matched |-> FALSE]
    /\ ops' = ops + 1
    /\ UNCHANGED <<idVars, geoVars, timeVars, moreVars, pipeVars>>

\* the statement of a temporal fact fails: execute_cypher returns False
IngestFails ==
    /\ ops < MaxOps
    /\ last' = [op |-> "ingest", ok |-> FALSE, removed |-> FALSE, matched |-> FALSE]
    /\ ops' = ops + 1
    /\ UNCHANGED <<graph, idVars, geoVars, timeVars, moreVars, pipeVars>>

\* a modification statement is executed
ApplyModification ==
    /\ ops < MaxOps
    /\ \E M \in Modifications :
        /\ graph' = apply_modification(graph, M)
        /\ last' = [op |-> "modification", ok |-> TRUE,
                    removed |-> (DOMAIN graph.Context) \ (DOMAIN graph'.Context) # {},
                    matched |-> mod_matched(graph, M) # {}]
    /\ ops' = ops + 1
    /\ UNCHANGED <<idVars, geoVars, timeVars, moreVars, pipeVars>>

\* a modification statement fails
ModificationFails ==
    /\ ops < MaxOps
    /\ last' = [op |-> "modification", ok |-> FALSE, removed |-> FALSE, matched |-> FALSE]
    /\ ops' = ops + 1
    /\ UNCHANGED <<graph, idVars, geoVars, timeVars, moreVars, pipeVars>>

NextGraph == IngestFact \/ IngestFails \/ ApplyModification \/ ModificationFails

SpecGraph == InitGraph /\ [][NextGraph]_vars

(***************************************************************************)
(* Properties of the graph under SpecGraph                                 *)
(***************************************************************************)
\* C1: context identity.  After any sequence of ingestions and
\* modifications, no two distinct Context nodes have the same from_time,
\* to_time, location_name, spatial_type and coordinates.
C1_ContextIdentity ==
    \A c, d \in DOMAIN graph.Context : graph.Context[c] = graph.Context[d] => c = d

\* the content hash of the current relation, subject set, object set and context-id set of h
content_he_id(g, h) ==
    deterministic_he_id(g.Hyperedge[h].relation_type, SetToSeq(SubjIds(g, h)),
                        SetToSeq(ObjIds(g, h)), SetToSeq(ContextsOf(g, h)))

\* C3: in every reachable graph, the id of each Hyperedge is the content hash
\* of its current relation, subject set, object set and context-id set.
C3_HyperedgeIdIsContentHash ==
    \A h \in DOMAIN graph.Hyperedge : h = content_he_id(graph, h)

\* C4: entity-count consistency.  After every write statement, the
\* entity_count of each Hyperedge is the number of CONNECTS edges leaving it.
C4_EntityCountConsistent ==
    \A h \in DOMAIN graph.Hyperedge : graph.Hyperedge[h].entity_count = ConnectsCount(graph, h)

NoOrphanContext(g) == \A c \in DOMAIN g.Context : \E v \in g.VALID_IN : v[2] = c

\* C5: no orphan contexts.  After a modification statement has executed,
\* every Context node has an incoming VALID_IN edge.
C5_NoOrphanContexts ==
    (last.op = "modification" /\ last.ok) => NoOrphanContext(graph)

\* a modification has executed and deleted an old context that lost its last edge
C5_Witness == last.op = "modification" /\ last.ok /\ last.removed

\* C10: idempotence.  For the graph after a successful ingestion of a fact,
\* ingesting the same fact again changes nothing.
C10_Idempotent ==
    \A F \in Facts :
        LET once == ingest_fact(graph, F) IN ingest_fact(once, F) = once

\* the context ids the create path derives for the contexts of a fact
fact_context_ids(F) ==
    LET cs == create_contexts(F.temporal_intervals, F.spatial_contexts)
    IN  {cs[k][1] : k \in DOMAIN cs}

\* no hyperedge of g satisfies a probe of the fact, and the fact's own id is free
no_matching_hyperedge(g, F) ==
    /\ \A k \in 1..3 : criterion_matches(g, F, k) = {}
    /\ fact_he_id(F) \notin DOMAIN g.Hyperedge

\* the facts (S, R, {cats}, C) with no entity repeated, and the same fact about dogs
AboutCats == {F \in Facts : F.objects = <<"cats">> /\ Cardinality(Range(F.subjects)) = Len(F.subjects)}
AboutDogs(F) == [F EXCEPT !.objects = <<"dogs">>]

\* the graph after (S, R, {cats}, C) and then (S, R, {dogs}, C)
cats_then_dogs(g, F) == ingest_fact(ingest_fact(g, F), AboutDogs(F))

\* C11: append correctness.  From a graph without a matching hyperedge,
\* ingesting (S, R, {a}, C) and then (S, R, {b}, C) adds exactly one
\* hyperedge; its subjects are S, its objects {a, b}, its contexts exactly C,
\* one Context node per distinct context.
C11_AppendCorrectness ==
    \A F \in AboutCats :
        (no_matching_hyperedge(graph, F) /\ no_matching_hyperedge(graph, AboutDogs(F))) =>
            LET g2 == cats_then_dogs(graph, F)
                added == (DOMAIN g2.Hyperedge) \ (DOMAIN graph.Hyperedge)
            IN  /\ Cardinality(added) = 1
                /\ \A h \in added :
                    /\ SubjIds(g2, h) = Range(F.subjects)
                    /\ ObjIds(g2, h) = {"cats", "dogs"}
                    /\ ContextsOf(g2, h) = fact_context_ids(F)
                    /\ \A c \in ContextsOf(g2, h) : c \in DOMAIN g2.Context
                    /\ \A c, d \in ContextsOf(g2, h) : g2.Context[c] = g2.Context[d] => c = d

\* the hyperedges of g that satisfy at least one of the three criteria for F
satisfying_hyperedges(g, F) == UNION {criterion_matches(g, F, k) : k \in 1..3}

\* C12: whenever a hyperedge satisfies an append criterion for an incoming
\* fact, the writer emits an append statement against such a hyperedge and
\* the number of Hyperedge nodes does not increase.
C12_MatchMeansAppend ==
    \A F \in Facts :
        satisfying_hyperedges(graph, F) # {} =>
            LET st == generate_cypher(graph, F)
            IN  /\ st.kind = "append"
                /\ st.h \in satisfying_hyperedges(graph, F)
                /\ Cardinality(DOMAIN execute_statement(graph, st).Hyperedge)
                       = Cardinality(DOMAIN graph.Hyperedge)

\* the (time, location) contexts observed from hyperedge h
observed_contexts(g, h) ==
    {IF c \in DOMAIN g.Context THEN <<g.Context[c]>> ELSE <<>> : c \in ContextsOf(g, h)}

\* C13: shared-context safety.  A modification that targets hyperedge H
\* changes the contexts observed from no other hyperedge: it neither changes
\* the properties of a Context node another hyperedge is attached to, nor
\* deletes it.
C13_SharedContextSafety ==
    \A M \in Modifications :
        LET after == apply_modification(graph, M)
        IN  \A h \in (DOMAIN graph.Hyperedge) \ mod_matched(graph, M) :
                observed_contexts(after, h) = observed_contexts(graph, h)

\* g2 has every node and edge of g1, every CONNECTS edge as often at least
grows(g1, g2) ==
    /\ g1.Node \subseteq g2.Node
    /\ DOMAIN g1.Hyperedge \subseteq DOMAIN g2.Hyperedge
    /\ DOMAIN g1.Context \subseteq DOMAIN g2.Context
    /\ \A e \in DOMAIN g1.CONNECTS : e \in DOMAIN g2.CONNECTS /\ g2.CONNECTS[e] >= g1.CONNECTS[e]
    /\ g1.VALID_IN \subseteq g2.VALID_IN

\* C21: no temporal-fact ingestion (create or append) and no modification
\* deletes an Entity node or a Hyperedge node, and a temporal-fact ingestion
\* only adds: the entities, hyperedges, contexts, CONNECTS and VALID_IN edges
\* grow monotonically under ingestion.  (The state-change write creates an
\* event node and edges from it and leaves these five sets as they are.)
C21_Lifecycles ==
    [][/\ graph.Node \subseteq graph'.Node
       /\ DOMAIN graph.Hyperedge \subseteq DOMAIN graph'.Hyperedge
       /\ last'.op = "ingest" => grows(graph, graph')]_vars

\* a modification has taken every edge of an entity away and the entity is
\* still there, beside a hyperedge an ingestion has made
C21_Witness ==
    /\ last.op = "modification"
    /\ last.ok
    /\ \E n \in graph.Node : \A e \in DOMAIN graph.CONNECTS : e[3] # n
    /\ DOMAIN graph.Hyperedge # {}

\* the criteria whose probe has a row for the fact
matching_criteria(g, F) == {k \in 1..3 : criterion_matches(g, F, k) # {}}

\* C23: criteria order and tie-break.  The hyperedge chosen for append is a
\* match of the lowest-numbered criterion (1: relation, objects and contexts;
\* 2: subjects, relation and objects; 3: subjects, relation and contexts)
\* that has any match, and among the matches of that criterion it is the one
\* with the lexicographically smallest id.
C23_CriteriaOrder ==
    \A F \in Facts :
        LET chosen == find_appendable_hyperedge(graph, F)
            ks == matching_criteria(graph, F)
        IN  chosen.found =>
                LET lowest == CHOOSE k \in ks : \A j \in ks : k <= j
                IN  /\ chosen.id \in criterion_matches(graph, F, lowest)
                    /\ \A h \in criterion_matches(graph, F, lowest) :
                          h = chosen.id \/ LexLess(chosen.id, h)

\* the (time interval, location) contexts of a hyperedge, and of a fact: T x L,
\* the location 'unknown' when L is empty
hyperedge_context_set(g, h) ==
    {<<coalesce(g.Context[c].from_time), coalesce(g.Context[c].to_time),
       coalesce(g.Context[c].location_name)>> : c \in ContextsOf(g, h) \cap DOMAIN g.Context}
fact_context_set(F) ==
    LET names == IF F.spatial_contexts = <<>> THEN {"unknown"}
                 ELSE Range(spatial_names(F.spatial_contexts))
    IN  {<<t[1], t[2], n>> : t \in Range(temporal_times(F.temporal_intervals)), n \in names}

\* C24: a contexts match in criteria 1 and 3 means equality of context sets.
\* A hyperedge matches only if its set of (time interval, location) contexts
\* equals the set of contexts of the incoming fact (T x L); a fact with no
\* location does not match a hyperedge whose contexts carry a named location.
C24_ContextSetEquality ==
    \A F \in Facts : \A k \in {1, 3} : \A h \in criterion_matches(graph, F, k) :
        hyperedge_context_set(graph, h) = fact_context_set(F)

\* the ids are exactly the entries of the list: equal size, mutual containment
exact_set(list, ids) ==
    /\ Cardinality(ids) = Len(list)
    /\ \A x \in ids : \E i \in DOMAIN list : list[i] = x
    /\ \A i \in DOMAIN list : list[i] \in ids

\* C25: for every criterion, subject and object matching is exact set
\* equality (equal size and mutual containment), and an intransitive fact
\* (empty object list) is never matched with, and never appended to, a
\* hyperedge that has at least one object connection.
C25_ExactSetsAndIntransitive ==
    \A F \in Facts :
        /\ \A h \in criterion_matches(graph, F, 1) : exact_set(F.objects, ObjIds(graph, h))
        /\ \A h \in criterion_matches(graph, F, 2) :
              exact_set(F.subjects, SubjIds(graph, h)) /\ exact_set(F.objects, ObjIds(graph, h))
        /\ \A h \in criterion_matches(graph, F, 3) : exact_set(F.subjects, SubjIds(graph, h))
        /\ F.objects = <<>> =>
              /\ \A k \in 1..3 : \A h \in criterion_matches(graph, F, k) : ObjIds(graph, h) = {}
              /\ generate_cypher(graph, F).kind = "append" =>
                    ObjIds(graph, generate_cypher(graph, F).h) = {}

\* the contexts C26 expects of the hyperedge created for a fact: T x L, with
\* the location 'unknown' for an empty L and unknown time bounds for an empty T
expected_context_set(F) ==
    LET times == IF F.temporal_intervals = <<>> THEN {<<"__NULL__", "__NULL__">>}
                 ELSE Range(temporal_times(F.temporal_intervals))
        names == IF F.spatial_contexts = <<>> THEN {"unknown"}
                 ELSE Range(spatial_names(F.spatial_contexts))
    IN  {<<t[1], t[2], n>> : t \in times, n \in names}

\* C26: create-path context set.  When no criterion matches, the new
\* hyperedge is attached to exactly one context per pair of T x L; to one
\* context per interval with location 'unknown' when L is empty; and to one
\* context per location with unknown time bounds when T is empty, so a created
\* hyperedge with a non-empty L always has at least one context.
C26_CreatePathContexts ==
    \A F \in Facts :
        LET st == generate_cypher(graph, F)
            created == execute_statement(graph, st)
            h == fact_he_id(F)
        IN  (st.kind = "create" /\ h \notin DOMAIN graph.Hyperedge) =>
                /\ F.temporal_intervals # <<>> =>
                      /\ hyperedge_context_set(created, h) = expected_context_set(F)
                      /\ Cardinality(ContextsOf(created, h)) = Cardinality(expected_context_set(F))
                /\ F.spatial_contexts # <<>> =>
                      /\ ContextsOf(created, h) # {}
                      /\ hyperedge_context_set(created, h) = expected_context_set(F)

\* the locations of the inputs, and those among them that a context of h holds
Locations == {UnknownCtx, Home}
existing_locations(g, h) ==
    {l \in Locations : \E c \in ContextsOf(g, h) \cap DOMAIN g.Context :
        /\ g.Context[c].location_name = l.name
        /\ g.Context[c].spatial_type = l.type
        /\ g.Context[c].coordinates = build_coordinates_cypher(l.type, l.coordinates)}

\* the ids the create path gives the contexts an append is to add: new times
\* with all locations, all times with new locations
appended_context_ids(g, h, F) ==
    LET times == Range(F.temporal_intervals)
        locations == Range(F.spatial_contexts)
        new_times == times \ existing_temporal(g, h)
        new_locations == locations \ existing_locations(g, h)
    IN  {context_id(t, l) : t \in new_times, l \in existing_locations(g, h) \cup locations}
        \cup {context_id(t, l) : t \in existing_temporal(g, h) \cup times, l \in new_locations}

\* C27: append context synthesis.  An append keeps every existing VALID_IN
\* edge of the hyperedge and adds exactly the contexts (new times) x
\* (existing locations plus the fact's locations) and (existing times plus the
\* fact's times) x (new locations), each MERGEd under the content-addressed
\* id that the create path would give the same (time, location) content.
C27_AppendContexts ==
    \A F \in Facts :
        LET st == generate_cypher(graph, F)
            after == execute_statement(graph, st)
        IN  st.kind = "append" =>
                ContextsOf(after, st.h) =
                    ContextsOf(graph, st.h) \cup appended_context_ids(graph, st.h, F)

\* the CONNECTS edges of h in a role, each with the number of its parallels
role_edges(g, h, role) ==
    [e \in {x \in EdgesOf(g, h) : x[2] = role} |-> g.CONNECTS[e]]

\* after the modification, the edges of h in the role go to exactly the
\* entities of the list, one edge each, and those of the other role are as before
rewired(g, after, h, role, other, list) ==
    /\ RoleIds(after, h, role) = Range(list)
    /\ \A e \in DOMAIN role_edges(after, h, role) : role_edges(after, h, role)[e] = 1
    /\ role_edges(after, h, other) = role_edges(g, h, other)

\* C28: subject/object rewire result.  After a modification that sets
\* subjects (or objects) of a matched hyperedge with k >= 1 old entities of
\* that role, the hyperedge's CONNECTS edges of that role go to exactly the
\* new entities, with exactly one edge per new entity, and the edges of the
\* other role are unchanged.
C28_RewireResult ==
    \A M \in Modifications : \A h \in mod_matched(graph, M) :
        LET after == apply_modification(graph, M)
        IN  /\ (M.keys = {"subjects"} /\ SubjIds(graph, h) # {}) =>
                  rewired(graph, after, h, "subject", "object", M.subjects)
            /\ (M.keys = {"objects"} /\ ObjIds(graph, h) # {}) =>
                  rewired(graph, after, h, "object", "subject", M.objects)

(***************************************************************************)
(* The create path's hyperedge id as a function of the fact: a fact is     *)
(* drawn, then its lists are reordered and its contexts repeated.          *)
(***************************************************************************)
MaxLen == 2            \* longest subjects / objects / intervals list first drawn
MaxRepeat == 3         \* longest intervals / spatial contexts list after repeats

Work == [name |-> "work", type |-> "Point", coordinates |-> NoCoords]

SeqsUpTo(S, lo, hi) == UNION {[1..n -> S] : n \in lo..hi}

IdFacts ==
    [subjects : SeqsUpTo({"John", "Mary", "O'Neil"}, 1, MaxLen),
     objects : SeqsUpTo({"cats", "dogs"}, 0, MaxLen),
     relation_type : {"likes"},
     temporal_intervals : SeqsUpTo({I1, I2}, 1, MaxLen),
     spatial_contexts : {<<>>, <<Home>>, <<Home, Work>>}]

\* list with the entries at i and i + 1 exchanged
Swap(list, i) ==
    [k \in DOMAIN list |-> IF k = i THEN list[i + 1] ELSE IF k = i + 1 THEN list[i] ELSE list[k]]

InitId ==
    /\ fact0 \in IdFacts
    /\ fact = fact0
    /\ GraphAtRest
    /\ PipeAtRest
    /\ GeoAtRest
    /\ TimeAtRest
    /\ MoreAtRest

ReorderSubjects ==
    /\ \E i \in 1..(Len(fact.subjects) - 1) :
            fact' = [fact EXCEPT !.subjects = Swap(@, i)]
    /\ UNCHANGED <<fact0, graphVars, geoVars, timeVars, moreVars, pipeVars>>

ReorderObjects ==
    /\ \E i \in 1..(Len(fact.objects) - 1) :
            fact' = [fact EXCEPT !.objects = Swap(@, i)]
    /\ UNCHANGED <<fact0, graphVars, geoVars, timeVars, moreVars, pipeVars>>

\* another order of the context ids
ReorderContexts ==
    /\ \/ \E i \in 1..(Len(fact.temporal_intervals) - 1) :
            fact' = [fact EXCEPT !.temporal_intervals = Swap(@, i)]
       \/ \E i \in 1..(Len(fact.spatial_contexts) - 1) :
            fact' = [fact EXCEPT !.spatial_contexts = Swap(@, i)]
    /\ UNCHANGED <<fact0, graphVars, geoVars, timeVars, moreVars, pipeVars>>

\* a context id more than once
RepeatContext ==
    /\ \/ /\ Len(fact.temporal_intervals) < MaxRepeat
          /\ \E i \in DOMAIN fact.temporal_intervals :
                fact' = [fact EXCEPT !.temporal_intervals = Append(@, @[i])]
       \/ /\ fact.spatial_contexts # <<>>
          /\ Len(fact.spatial_contexts) < MaxRepeat
          /\ \E i \in DOMAIN fact.spatial_contexts :
                fact' = [fact EXCEPT !.spatial_contexts = Append(@, @[i])]
    /\ UNCHANGED <<fact0, graphVars, geoVars, timeVars, moreVars, pipeVars>>

NextId == ReorderSubjects \/ ReorderObjects \/ ReorderContexts \/ RepeatContext

SpecId == InitId /\ [][NextId]_vars

\* C2: hyperedge identity.  The id the create path computes for a fact is
\* the same for every permutation of its subjects and of its objects and
\* for every order or repetition of its context ids.
C2_HyperedgeIdentity == fact_he_id(fact) = fact_he_id(fact0)

\* subjects and objects both reordered, and a context id repeated
C2_Witness ==
    /\ fact.subjects # fact0.subjects
    /\ fact.objects # fact0.objects
    /\ Len(fact.temporal_intervals) > Len(fact0.temporal_intervals)
    /\ fact.spatial_contexts # fact0.spatial_contexts

(***************************************************************************)
(* chunking_streaming_pipeline: one run on one input text.  The sentence   *)
(* tasks run interleaved; a task gives up control at its LLM calls and     *)
(* while the store executes its statement.                                 *)
(***************************************************************************)
NumSentences == 2      \* regular sentences of the input text
MaxFacts == 2          \* facts the extraction returns for one sentence
MaxStateFacts == 1     \* state facts the inference call returns

Sentences == 1..NumSentences

\* what the structure extraction can return for a sentence: two facts about
\* the same subject, a fact with a null interval, a placeholder
JohnLikesCats ==
    [subjects |-> <<"John">>, objects |-> <<"cats">>, relation_type |-> "likes",
     temporal_intervals |-> <<I1>>, spatial_contexts |-> <<>>]
JohnLikesDogs == [JohnLikesCats EXCEPT !.objects = <<"dogs">>]
NullIntervals == [JohnLikesCats EXCEPT !.temporal_intervals = <<NullEntry>>]
Placeholder == [JohnLikesCats EXCEPT !.subjects = <<"Unknown", " ? ">>]

\* a real subject among placeholders, and a placeholder object
SomePlaceholders ==
    [JohnLikesCats EXCEPT !.subjects = <<" ? ", "John", " ">>, !.objects = <<"Unknown">>]

PipeFacts == {JohnLikesCats, JohnLikesDogs, NullIntervals, Placeholder, SomePlaceholders}

\* the modification a modification sentence of the input states
JohnLovesCats ==
    Modification([subjects |-> <<"John">>, objects |-> <<"cats">>, relation_type |-> "likes"],
                 {"relation_type"}, "loves", <<>>, <<>>, <<>>, <<>>)

\* the test sanitise_fact applies to a stripped relation, and to a stripped entity
placeholder(x) == x = "" \/ lower(x) \in {"unknown", "?"}
placeholder_entity(x) == ~(x # "" /\ x # "?" /\ lower(x) # "unknown")

\* the stripped entities of a list that are no placeholders
real_entities(list) ==
    SelectSeq([i \in DOMAIN list |-> strip(list[i])], LAMBDA x : ~placeholder_entity(x))

\* sanitise_fact with the entities compared as written, not lowered
sanitise_fact_case_sensitive(F) ==
    IF placeholder(strip(F.relation_type)) THEN <<>>
    ELSE IF SelectSeq(F.subjects, LAMBDA x : x \notin {"", "?", "unknown"}) = <<>> THEN <<>>
    ELSE << [F EXCEPT !.relation_type = strip(F.relation_type),
                      !.subjects = SelectSeq(F.subjects, LAMBDA x : x \notin {"", "?", "unknown"}),
                      !.objects = SelectSeq(F.objects, LAMBDA x : x \notin {"", "?", "unknown"})] >>

\* sanitise_fact: <<>> (None) for a placeholder relation or no real subject,
\* else <<the cleaned fact>>
sanitise_fact(F) ==
    IF placeholder(strip(F.relation_type)) THEN <<>>
    ELSE IF real_entities(F.subjects) = <<>> THEN <<>>
    ELSE << [F EXCEPT !.relation_type = strip(F.relation_type),
                      !.subjects = real_entities(F.subjects),
                      !.objects = real_entities(F.objects)] >>

\* extract_structured_modifications: the reply of chat_completion is a str,
\* the loop over it takes its characters and .get on a character raises,
\* which the function answers with []
extract_structured_modifications(stated) == <<>>

\* the loop left as soon as one sentence task has finished
some_sentence_complete(t) == \E s \in Sentences : t[s].pc = "done"

\* the as_completed loop is left once every sentence task has been awaited
all_sentences_complete(t) == \A s \in Sentences : t[s].pc = "done"

\* a gate that does not look at the failed writes
commit_gate_ignoring_failures(all_data, successful, failed) ==
    /\ all_data # <<>>
    /\ ~(Len(successful) = 0)

\* the commit gate: inference goes ahead unless no fact was collected, a
\* write was recorded as failed, or no write was recorded as successful
commit_gate(all_data, successful, failed) ==
    /\ all_data # <<>>
    /\ ~(Len(failed) > 0)
    /\ ~(Len(successful) = 0)

\* a sentence task not yet started; events are the stage events it has
\* passed to progress_cb
NewTask ==
    [pc |-> "expand", todo |-> <<>>, statement |-> EmptyStatement(JohnLikesCats),
     events |-> <<>>]

\* await progress_cb({"type": "stage", "stage": stage, "chunk": .., "sentence": s})
emit(t, s, stage) == [t EXCEPT ![s].events = Append(@, stage)]

InitPipe ==
    /\ text_to_cypher_pipeline \in {"pipeline", None}
    /\ pc = "detect"
    /\ modification_text \in {{}, {JohnLovesCats}}
    /\ modification_facts = <<>>
    /\ task = [s \in Sentences |-> NewTask]
    /\ all_structured_data = <<>>
    /\ successful_temporal_facts = <<>>
    /\ failed_temporal_facts = <<>>
    /\ structured_state_facts = <<>>
    /\ state_fact_statements = 0
    /\ state_fact_fail_count = 0
    /\ state_change_events = <<>>
    /\ applied_modifications = {}
    /\ write_failed = FALSE
    /\ inference_started = FALSE
    /\ openai_api_key \in BOOLEAN
    /\ queue = NoEvents
    /\ GraphAtRest
    /\ IdAtRest
    /\ GeoAtRest
    /\ TimeAtRest
    /\ MoreAtRest

\* detect_modification_sentences, then extract_structured_modifications if
\* there is modification text; OpenAILLMInterface() is constructed for the
\* sentence tasks, which are created next
DetectModifications ==
    /\ pc = "detect"
    /\ openai_api_key
    /\ modification_facts' = IF modification_text # {}
                             THEN extract_structured_modifications(modification_text)
                             ELSE <<>>
    /\ pc' = "sentences"
    /\ UNCHANGED <<text_to_cypher_pipeline, modification_text, task, all_structured_data,
                   successful_temporal_facts, failed_temporal_facts, structured_state_facts,
                   state_fact_statements, state_fact_fail_count,
                   state_change_events, applied_modifications, write_failed,
                   inference_started, openai_api_key, queue, graphVars, idVars, geoVars, timeVars, moreVars>>

\* OpenAILLMInterface() raises ValueError without an API key: the pipeline
\* raises before a sentence task exists
InterfaceRaises ==
    /\ pc = "detect"
    /\ ~openai_api_key
    /\ pc' = "raised"
    /\ UNCHANGED <<text_to_cypher_pipeline, modification_text, modification_facts, task,
                   all_structured_data, successful_temporal_facts, failed_temporal_facts,
                   structured_state_facts, state_fact_statements, state_fact_fail_count,
                   state_change_events, applied_modifications,
                   write_failed, inference_started, openai_api_key, queue, graphVars, idVars, geoVars, timeVars, moreVars>>

\* what a sentence task leaves untouched unless it says otherwise
TaskFrame ==
    UNCHANGED <<text_to_cypher_pipeline, pc, modification_text, modification_facts,
                structured_state_facts, state_fact_statements, state_fact_fail_count,
                   state_change_events, applied_modifications,
                inference_started, openai_api_key, queue, last, ops, idVars, geoVars, timeVars, moreVars>>

\* the task of sentence s after the fact at the head of its list is dealt with
next_fact(t, s) ==
    [t EXCEPT ![s] = [@ EXCEPT !.todo = Tail(@),
                               !.pc = IF Tail(t[s].todo) = <<>> THEN "done" ELSE "facts"]]

\* a failed write that also ends every other sentence task
after_failed_write_cancelling_siblings(t, s) ==
    [x \in DOMAIN t |-> IF x = s THEN next_fact(t, s)[s]
                        ELSE [t[x] EXCEPT !.pc = "done", !.todo = <<>>]]

\* the tasks after the write of sentence s failed: the fact is recorded
\* as failed and the loop of s goes on to its next fact
after_failed_write(t, s) == next_fact(t, s)

\* expand_temporal_facts_for_sentence returns
ExpandSentence(s) ==
    /\ pc = "sentences"
    /\ task[s].pc = "expand"
    /\ task' = [emit(emit(task, s, "temporal_start"), s, "temporal_done")
                    EXCEPT ![s].pc = "extract"]
    /\ UNCHANGED <<graph, all_structured_data, successful_temporal_facts,
                   failed_temporal_facts, write_failed>>
    /\ TaskFrame

\* extract_structure_no_coords_from_chunk returns a list of facts; if it
\* raises, the task returns []
ExtractStructure(s) ==
    /\ pc = "sentences"
    /\ task[s].pc = "extract"
    /\ \E structured_data_list \in SeqsUpTo(PipeFacts, 0, MaxFacts) :
            task' = [emit(task, s, "structure_done")
                        EXCEPT ![s] = [@ EXCEPT !.todo = structured_data_list,
                                                !.pc = IF structured_data_list = <<>>
                                                       THEN "done" ELSE "facts"]]
    /\ UNCHANGED <<graph, all_structured_data, successful_temporal_facts,
                   failed_temporal_facts, write_failed>>
    /\ TaskFrame

\* the loop body up to the await of execute_cypher: sanitise the fact,
\* collect it, generate its statement from the graph as it is now, send it
BeginFact(s) ==
    /\ pc = "sentences"
    /\ task[s].pc = "facts"
    /\ LET cleaned == sanitise_fact(Head(task[s].todo))
           sanitised == cleaned[1]
           st == generate_cypher(graph, sanitised)
       IN  IF cleaned = <<>>
           THEN /\ task' = next_fact(task, s)
                /\ UNCHANGED <<all_structured_data, successful_temporal_facts>>
           ELSE /\ all_structured_data' = Append(all_structured_data, sanitised)
                /\ IF text_to_cypher_pipeline = None
                   THEN /\ successful_temporal_facts' = Append(successful_temporal_facts, sanitised)
                        /\ task' = next_fact(emit(task, s, "spatial_done"), s)
                   ELSE IF st.kind = "empty"
                   THEN /\ task' = next_fact(emit(task, s, "spatial_done"), s)
                        /\ UNCHANGED successful_temporal_facts
                   ELSE /\ task' = [emit(task, s, "spatial_done")
                                        EXCEPT ![s] = [@ EXCEPT !.pc = "execute", !.statement = st]]
                        /\ UNCHANGED successful_temporal_facts
    /\ UNCHANGED <<graph, failed_temporal_facts, write_failed>>
    /\ TaskFrame

\* execute_cypher returns: True with the statement executed, or False
FinishWrite(s) ==
    /\ pc = "sentences"
    /\ task[s].pc = "execute"
    /\ \E success \in BOOLEAN :
        IF success
        THEN /\ graph' = execute_statement(graph, task[s].statement)
             /\ successful_temporal_facts' =
                    Append(successful_temporal_facts, task[s].statement.fact)
             /\ task' = next_fact(emit(task, s, "graph_done"), s)
             /\ UNCHANGED <<failed_temporal_facts, write_failed>>
        ELSE /\ failed_temporal_facts' = Append(failed_temporal_facts, task[s].statement.fact)
             /\ write_failed' = TRUE
             /\ task' = after_failed_write(task, s)
             /\ UNCHANGED <<graph, successful_temporal_facts>>
    /\ UNCHANGED all_structured_data
    /\ TaskFrame

\* the graph operations of the fact raise: the except branch
GraphOperationRaises(s) ==
    /\ pc = "sentences"
    /\ task[s].pc = "execute"
    /\ failed_temporal_facts' = Append(failed_temporal_facts, task[s].statement.fact)
    /\ write_failed' = TRUE
    /\ task' = after_failed_write(task, s)
    /\ UNCHANGED <<graph, all_structured_data, successful_temporal_facts>>
    /\ TaskFrame

\* what the main coroutine leaves untouched after the sentence phase
MainFrame ==
    UNCHANGED <<text_to_cypher_pipeline, modification_text, modification_facts, task,
                all_structured_data, successful_temporal_facts, failed_temporal_facts,
                applied_modifications, write_failed, openai_api_key, queue, graphVars, idVars, geoVars, timeVars, moreVars>>

\* after the as_completed loop: the gate
CommitGate ==
    /\ pc = "sentences"
    /\ all_sentences_complete(task)
    /\ IF commit_gate(all_structured_data, successful_temporal_facts, failed_temporal_facts)
       THEN pc' = "infer" /\ inference_started' = TRUE
       ELSE pc' = "done" /\ UNCHANGED inference_started
    /\ UNCHANGED <<structured_state_facts, state_fact_statements, state_fact_fail_count,
                   state_change_events>>
    /\ MainFrame

\* extract_partial_structured_state_facts: one skeleton per temporal fact.
\* The caused_by and causes lists are left out of the skeletons: the
\* statement parts made from them (wire_references) create CAUSES_STATE and
\* REQUIRES_STATE edges only, never an event node or an AFFECTS_FACT edge.
extract_partial_structured_state_facts(structured_temporal_facts) ==
    [i \in DOMAIN structured_temporal_facts |->
        [fact_type |-> "state_change_event",
         affected_fact |-> [subjects |-> structured_temporal_facts[i].subjects,
                            objects |-> structured_temporal_facts[i].objects,
                            relation_type |-> structured_temporal_facts[i].relation_type]]]

\* what extract_structured_state_facts can return: the skeletons with
\* their causality filled in (or the skeletons as they are when the call
\* fails), or a shorter list, the reply being the model's to choose
state_fact_replies(partial) ==
    {SubSeq(partial, 1, n) : n \in {k \in (0..MaxStateFacts) \cup {Len(partial)} : k <= Len(partial)}}

\* the rows of the locator: the hyperedges of the relation whose collected
\* subject ids and object ids are set-equal to the lists of affected_fact
\* (no object edge at all when the list is empty)
affected_hyperedges(g, affected_fact) ==
    {h \in DOMAIN g.Hyperedge : /\ relation_match(g, h, affected_fact)
                                /\ subjects_match(g, h, affected_fact)
                                /\ objects_match(g, h, affected_fact)}

\* CREATE (sce:StateChangeEvent) CREATE (sce)-[:AFFECTS_FACT]->(h), once
\* for every row of the locator
create_state_change_events(g, events, affected_fact) ==
    LET rows == SetToSeq(affected_hyperedges(g, affected_fact))
    IN  events \o [i \in DOMAIN rows |->
                      [affected_fact |-> affected_fact, AFFECTS_FACT |-> {rows[i]}]]

\* the references of a state fact in statement order: the causes of every
\* group of caused_by (an empty group is skipped), then the effects of causes
RECURSIVE flatten(_)
flatten(groups) == IF groups = <<>> THEN <<>> ELSE Head(groups) \o flatten(Tail(groups))

references(state_fact) ==
    [i \in DOMAIN flatten(state_fact.caused_by) |->
        [kind |-> "cause", ref |-> flatten(state_fact.caused_by)[i],
         state |-> flatten(state_fact.caused_by)[i].triggered_by_state]]
    \o [i \in DOMAIN state_fact.causes |->
        [kind |-> "effect", ref |-> state_fact.causes[i],
         state |-> state_fact.causes[i].triggers_state]]

\* the parts "WITH sce MATCH (hc ...) ... WHERE ... CREATE (hc)-[:CAUSES_STATE]->(sce)"
\* run one after the other over the rows the parts before have left: a part
\* leaves one row per incoming row and matching hyperedge, and CREATEs its
\* edge once per row it leaves.  wired is, per reference, the hyperedges
\* that got a CAUSES_STATE edge.
RECURSIVE wire_references(_, _, _, _)
wire_references(g, refs, rows, wired) ==
    IF refs = <<>> THEN wired
    ELSE LET H == affected_hyperedges(g, Head(refs).ref)
         IN  wire_references(g, Tail(refs), rows * Cardinality(H),
                             Append(wired, [kind |-> Head(refs).kind, ref |-> Head(refs).ref,
                                            state |-> Head(refs).state,
                                            hyperedges |-> IF rows = 0 THEN {} ELSE H]))

\* the statement of one state-change event executed on graph g: the event
\* nodes it creates and the CAUSES_STATE edges of each reference
write_state_change_event(g, state_fact) ==
    [events |-> create_state_change_events(g, <<>>, state_fact.affected_fact),
     CAUSES_STATE |->
        wire_references(g, references(state_fact),
                        Cardinality(affected_hyperedges(g, state_fact.affected_fact)), <<>>)]

\* skeletons are built and extract_structured_state_facts returns
InferStateFacts ==
    /\ pc = "infer"
    /\ \E reply \in state_fact_replies(extract_partial_structured_state_facts(all_structured_data)) :
        /\ structured_state_facts' = reply
        /\ pc' = IF text_to_cypher_pipeline # None /\ reply # <<>> THEN "state_facts" ELSE "done"
    /\ UNCHANGED <<state_fact_statements, state_fact_fail_count, state_change_events,
                   inference_started>>
    /\ MainFrame

\* the statement of the next state fact is generated and executed:
\* execute_cypher returns True with the statement executed, or False.  The
\* subjects and the relation of a sanitised fact are not empty, so the
\* generator yields a statement for every skeleton.
WriteStateFact ==
    /\ pc = "state_facts"
    /\ state_fact_statements < Len(structured_state_facts)
    /\ LET state_fact == structured_state_facts[state_fact_statements + 1]
       IN  \E success \in BOOLEAN :
            IF success
            THEN /\ state_change_events' =
                        create_state_change_events(graph, state_change_events,
                                                   state_fact.affected_fact)
                 /\ UNCHANGED state_fact_fail_count
            ELSE /\ state_fact_fail_count' = state_fact_fail_count + 1
                 /\ UNCHANGED state_change_events
    /\ state_fact_statements' = state_fact_statements + 1
    /\ pc' = IF state_fact_statements + 1 = Len(structured_state_facts) THEN "done" ELSE "state_facts"
    /\ UNCHANGED <<structured_state_facts, inference_started>>
    /\ MainFrame

\* a producer that puts the complete event twice
run_pipeline_end_twice(q, raised) ==
    IF raised THEN [q EXCEPT !.error = @ + 1] ELSE [q EXCEPT !.complete = @ + 2]

\* what run_pipeline puts on the queue when the async for is over: the
\* complete event if the generator ended, the error event if it raised
run_pipeline_end(q, raised) ==
    IF raised THEN [q EXCEPT !.error = @ + 1] ELSE [q EXCEPT !.complete = @ + 1]

\* run_pipeline after the async for over the pipeline
RunPipelineEnds ==
    /\ pc \in {"done", "raised"}
    /\ queue' = run_pipeline_end(queue, pc = "raised")
    /\ pc' = "closed"
    /\ UNCHANGED <<text_to_cypher_pipeline, modification_text, modification_facts, task,
                   all_structured_data, successful_temporal_facts, failed_temporal_facts,
                   structured_state_facts, state_fact_statements, state_fact_fail_count,
                   state_change_events, applied_modifications,
                   write_failed, inference_started, openai_api_key, graphVars, idVars, geoVars, timeVars, moreVars>>

NextPipe ==
    \/ DetectModifications
    \/ InterfaceRaises
    \/ RunPipelineEnds
    \/ \E s \in Sentences :
          \/ ExpandSentence(s)
          \/ ExtractStructure(s)
          \/ BeginFact(s)
          \/ FinishWrite(s)
          \/ GraphOperationRaises(s)
    \/ CommitGate
    \/ InferStateFacts
    \/ WriteStateFact

SpecPipe == InitPipe /\ [][NextPipe]_vars

(***************************************************************************)
(* Properties of the pipeline under SpecPipe                               *)
(***************************************************************************)
\* C6: all-or-nothing causality.  If the write of any temporal fact of the
\* input failed (execute returned False or raised), no StateChangeEvent
\* statement is generated or executed for that input.
C6_AllOrNothing == write_failed => state_fact_statements = 0

\* the run is over, one write failed and another succeeded
C6_Witness ==
    /\ pc = "done"
    /\ write_failed
    /\ text_to_cypher_pipeline # None
    /\ Len(successful_temporal_facts) > 0

\* C7: the gate compares successes with the total.  Inference is started
\* only when as many facts were recorded as written as were collected.
C7_GateComparesTotal ==
    inference_started => Len(successful_temporal_facts) = Len(all_structured_data)

\* C8: phase ordering.  The first causal-inference step comes after every
\* sentence task has finished its last temporal-fact write attempt.
C8_PhaseOrdering ==
    (inference_started \/ state_fact_statements > 0) =>
        \A s \in Sentences : task[s].pc = "done"

\* inference ran and wrote a state fact after two sentences wrote facts to the store
C8_Witness ==
    /\ inference_started
    /\ state_fact_statements > 0
    /\ text_to_cypher_pipeline # None
    /\ Len(successful_temporal_facts) >= NumSentences

\* C9: every modification the input's modification sentences state is
\* applied to the graph by the run, and only after all temporal-fact writes.
C9_ModificationsApplied ==
    /\ pc = "done" => modification_text \subseteq applied_modifications
    /\ applied_modifications # {} => \A s \in Sentences : task[s].pc = "done"

\* the stages of a sentence, in the order the task body reaches them
Stages == <<"temporal_start", "temporal_done", "structure_done", "spatial_done", "graph_done">>
stage_index(stage) == CHOOSE k \in DOMAIN Stages : Stages[k] = stage

\* C14: per-sentence event order.  The stage events of one sentence are
\* emitted in the order temporal_start, temporal_done, structure_done,
\* spatial_done, graph_done: no event of an earlier stage follows an event
\* of a later stage.
C14_SentenceEventOrder ==
    \A s \in DOMAIN task :
        \A i, j \in DOMAIN task[s].events :
            i < j => stage_index(task[s].events[i]) <= stage_index(task[s].events[j])

\* the events of sentence s at a stage
events_at(s, stage) == SelectSeq(task[s].events, LAMBDA e : e = stage)

\* the inference phase has finished or the gate has skipped it: every
\* sentence task is over and no state fact is left to write
inference_over ==
    /\ pc \in {"done", "closed"}
    /\ all_sentences_complete(task)
    /\ text_to_cypher_pipeline # None => state_fact_statements = Len(structured_state_facts)

all_stages_run(s) ==
    /\ task[s].pc = "done"
    /\ Len(events_at(s, "temporal_done")) = 1
    /\ Len(events_at(s, "structure_done")) = 1

\* C16: failure isolation.  A failed graph write of one sentence task is
\* recorded in the failed list and changes no other sentence task; every
\* sentence task still runs all its stages to the end.
C16_FailureIsolation ==
    /\ [](write_failed <=> Len(failed_temporal_facts) > 0)
    /\ [][Len(failed_temporal_facts') > Len(failed_temporal_facts) =>
            \E s \in Sentences : \A x \in Sentences \ {s} : task'[x] = task[x]]_vars
    /\ [](pc \in {"done", "closed"} /\ openai_api_key => \A s \in Sentences : all_stages_run(s))

\* the write of one sentence failed, and then another sentence wrote its fact
C16_Witness ==
    /\ pc = "done"
    /\ Len(failed_temporal_facts) = 1
    /\ Len(successful_temporal_facts) = 1
    /\ \E s, x \in Sentences :
        /\ Len(events_at(s, "spatial_done")) = 1 /\ Len(events_at(s, "graph_done")) = 0
        /\ Len(events_at(x, "graph_done")) = 1
    /\ text_to_cypher_pipeline # None

\* C17: a graph write failure is surfaced in the progress stream.  Every
\* fact that reaches the graph-write stage produces a terminal event for its
\* sentence, graph_done on success and graph_failed on failure, so a
\* finished sentence has as many terminal events as spatial_done events.
C17_FailureSurfaced ==
    \A s \in DOMAIN task :
        task[s].pc = "done" =>
            Len(events_at(s, "spatial_done")) =
                Len(SelectSeq(task[s].events, LAMBDA e : e \in {"graph_done", "graph_failed"}))

\* the run committed every temporal fact, the inference reply kept every
\* skeleton, and every state-fact statement was executed
causal_inference_ran ==
    /\ pc \in {"done", "closed"}
    /\ inference_started
    /\ text_to_cypher_pipeline # None
    /\ successful_temporal_facts = all_structured_data
    /\ Len(structured_state_facts) = Len(all_structured_data)
    /\ state_fact_statements = Len(structured_state_facts)
    /\ state_fact_fail_count = 0

\* the hyperedge h has the relation, the subject set and the object set of a
affects(h, a) ==
    /\ graph.Hyperedge[h].relation_type = a.relation_type
    /\ SubjIds(graph, h) = Range(a.subjects)
    /\ ObjIds(graph, h) = Range(a.objects)

\* C18: after all temporal facts of an input committed and causal inference
\* ran, the number of StateChangeEvent nodes created for the input equals the
\* number of temporal facts, and each event node has exactly one AFFECTS_FACT
\* edge, to a hyperedge whose relation, subject set and object set equal the
\* event's affected_fact.
C18_OneEventPerTemporalFact ==
    causal_inference_ran =>
        /\ Len(state_change_events) = Len(all_structured_data)
        /\ \A i \in DOMAIN state_change_events :
              /\ Cardinality(state_change_events[i].AFFECTS_FACT) = 1
              /\ \A h \in state_change_events[i].AFFECTS_FACT :
                    affects(h, state_change_events[i].affected_fact)

\* what the claim calls a placeholder: empty, '?' or 'unknown' in any case
is_placeholder(x) == x \in {"", "?", "unknown", "Unknown"}

\* a fact free of placeholders, with at least one subject
clean_fact(F) ==
    /\ ~is_placeholder(F.relation_type)
    /\ F.subjects # <<>>
    /\ \A i \in DOMAIN F.subjects : ~is_placeholder(F.subjects[i])
    /\ \A i \in DOMAIN F.objects : ~is_placeholder(F.objects[i])

MAX_POINTS == 20

MaxRings == 3          \* rings of a Polygon
MaxPolygons == 6       \* polygons of a MultiPolygon

max(a, b) == IF a >= b THEN a ELSE b

ensure_closed(ring) ==
    IF ring = <<>> THEN ring
    ELSE IF ring[1] # ring[Len(ring)] THEN Append(ring, ring[1])
    ELSE ring

ring_unique_vertices(ring) ==
    IF ring # <<>> /\ ring[1] = ring[Len(ring)] THEN SubSeq(ring, 1, Len(ring) - 1)
    ELSE ring

\* the while loop of decimate_ring: indices int(k * step) for k = 0, 1, ...
\* with step = n / target, while fewer than target are kept and k * step < n
RECURSIVE sample_indices(_, _, _, _)
sample_indices(k, indices, n, target_vertices) ==
    IF Len(indices) < target_vertices /\ k * n < n * target_vertices
    THEN LET idx == (k * n) \div target_vertices
         IN  sample_indices(k + 1,
                            IF indices = <<>> \/ idx # indices[Len(indices)]
                            THEN Append(indices, idx) ELSE indices,
                            n, target_vertices)
    ELSE indices

decimate_ring(ring0, target_vertices) ==
    LET ring == ensure_closed(ring0)
        unique == ring_unique_vertices(ring)
        n == Len(unique)
        sampled == sample_indices(0, <<>>, n, target_vertices)
        with_first == IF \E k \in DOMAIN sampled : sampled[k] = 0 THEN sampled
                      ELSE <<0>> \o sampled
        indices == SubSeq(with_first, 1, IF Len(with_first) < target_vertices
                                         THEN Len(with_first) ELSE target_vertices)
        out == IF n <= max(4, target_vertices) THEN unique
               ELSE [k \in DOMAIN indices |-> unique[indices[k] + 1]]
    IN  IF out[1] # out[Len(out)] THEN Append(out, out[1]) ELSE out

RECURSIVE sum_len(_)
\* sum(len(x) for x in list)
sum_len(list) == IF list = <<>> THEN 0 ELSE Len(Head(list)) + sum_len(Tail(list))

\* the fallback to the place's own lon/lat
PointOfPlace == [type |-> "Point", coordinates |-> <<>>]

\* the result for a place whose geojson is a Polygon or a MultiPolygon
expand_spatial(p) ==
    LET polygons == IF p.type = "Polygon" THEN <<p.coordinates>> ELSE p.coordinates
        num_rings == sum_len(polygons)
        per_ring_cap == max(4, MAX_POINTS \div num_rings)
        simplified_polygons ==
            [a \in DOMAIN polygons |->
                [b \in DOMAIN polygons[a] |-> decimate_ring(polygons[a][b], per_ring_cap)]]
    IN  IF num_rings = 0 THEN PointOfPlace
        ELSE IF num_rings * 4 > MAX_POINTS THEN PointOfPlace
        ELSE [type |-> p.type,
              coordinates |-> IF p.type = "Polygon" THEN simplified_polygons[1]
                              ELSE simplified_polygons]

\* a ring of n distinct positions, given closed or open
Ring(n, closed) == IF closed THEN [k \in 1..(n + 1) |-> IF k = n + 1 THEN 1 ELSE k]
                   ELSE [k \in 1..n |-> k]

Rings == {Ring(n, closed) : n \in {3, 4, 20, 23}, closed \in BOOLEAN}
SmallRings == {Ring(3, TRUE), Ring(4, FALSE)}

\* the geojson of the places Nominatim answers with
Places ==
    [type : {"Polygon"}, coordinates : SeqsUpTo(Rings, 0, MaxRings)]
    \cup [type : {"MultiPolygon"},
          coordinates : SeqsUpTo({<<r>> : r \in SmallRings}, 0, MaxPolygons)]

InitSpatial ==
    /\ place \in Places
    /\ results = <<>>
    /\ GraphAtRest
    /\ IdAtRest
    /\ PipeAtRest
    /\ TimeAtRest
    /\ MoreAtRest

\* expand_spatial returns
ExpandSpatial ==
    /\ results = <<>>
    /\ results' = <<expand_spatial(place)>>
    /\ UNCHANGED <<place, graphVars, idVars, timeVars, moreVars, pipeVars>>

NextSpatial == ExpandSpatial

SpecSpatial == InitSpatial /\ [][NextSpatial]_vars

\* the positions of all rings of a returned geometry, closing positions included
total_vertices(r) ==
    IF r.type = "Polygon" THEN sum_len(r.coordinates)
    ELSE sum_len([a \in DOMAIN r.coordinates |-> r.coordinates[a][1]])

\* C20: polygon decimation cap.  Every Polygon or MultiPolygon that
\* expand_spatial returns has at most 20 positions over all its rings, each
\* ring's closing position counted.
C20_DecimationCap ==
    \A k \in DOMAIN results :
        results[k].type \in {"Polygon", "MultiPolygon"} => total_vertices(results[k]) <= MAX_POINTS

\* C30: a modification whose affected_fact (relation, exact subject set,
\* exact object set) matches no hyperedge leaves the graph unchanged: its
\* statement creates, deletes and updates no Entity, no Context and no edge.
C30_NoMatchNoChange ==
    \A M \in Modifications :
        mod_matched(graph, M) = {} => apply_modification(graph, M) = graph

\* a modification that matched nothing has been executed on a graph that
\* holds hyperedges, contexts and entities
C30_Witness ==
    /\ last.op = "modification" /\ last.ok /\ ~last.matched
    /\ DOMAIN graph.Hyperedge # {}
    /\ DOMAIN graph.Context # {}
    /\ graph.Node # {}

\* state facts with causality lists, as the inference call returns them:
\* references to two facts, no additional_required_states
Causes ==
    [subjects : {<<"John">>, <<"Mary">>}, objects : {<<"cats">>}, relation_type : {"likes"},
     triggered_by_state : {TRUE}]
Effects ==
    [subjects : {<<"John">>, <<"Mary">>}, objects : {<<"cats">>}, relation_type : {"likes"},
     triggers_state : {FALSE}]
CausedBy ==
    {<<>>} \cup {<< <<a>> >> : a \in Causes} \cup {<< <<>>, <<a>> >> : a \in Causes}
    \cup {<< <<a, b>> >> : a, b \in Causes} \cup {<< <<a>>, <<b>> >> : a, b \in Causes}
StateFacts ==
    [fact_type : {"state_change_event"}, affected_fact : AffectedFacts,
     caused_by : CausedBy,
     causes : {<<>>} \cup {<<a>> : a \in Effects} \cup {<<a, b>> : a, b \in Effects}]

\* C29: cause and effect wiring is per reference.  When a state-change event
\* is written, every cause in caused_by and every effect in causes whose
\* (subjects, objects, relation) exactly matches an existing hyperedge gets
\* its CAUSES_STATE edge (with required_state for a cause, triggers_state for
\* an effect), whether or not another reference of the same event fails to
\* resolve.
C29_WiringPerReference ==
    \A state_fact \in StateFacts :
        LET written == write_state_change_event(graph, state_fact)
        IN  written.events # <<>> =>
                \A i \in DOMAIN written.CAUSES_STATE :
                    LET part == written.CAUSES_STATE[i]
                    IN  /\ part.hyperedges = affected_hyperedges(graph, part.ref)
                        /\ part.state = IF part.kind = "cause" THEN part.ref.triggered_by_state
                                        ELSE part.ref.triggers_state

(***************************************************************************)
(* temporal_checking.is_time_within_range.  A datetime is <<n>>, n its     *)
(* place on the time line; None is <<>>.  The three times are of one kind  *)
(* (all naive or all aware), so every comparison is defined.               *)
(***************************************************************************)
MaxTime == 4           \* the datetimes are <<0>> .. <<MaxTime>>

\* bool(x) of a datetime or None: a datetime is always true
truthy(x) == x # <<>>

\* start <= t <= end taken as start <= t < end
is_time_within_range_exclusive_end(current, start, end) ==
    IF truthy(start) /\ truthy(end) THEN start[1] <= current[1] /\ current[1] < end[1]
    ELSE IF truthy(start) THEN current[1] >= start[1]
    ELSE IF truthy(end) THEN current[1] < end[1]
    ELSE TRUE

is_time_within_range(current, start, end) ==
    IF truthy(start) /\ truthy(end) THEN start[1] <= current[1] /\ current[1] <= end[1]
    ELSE IF truthy(start) THEN current[1] >= start[1]
    ELSE IF truthy(end) THEN current[1] <= end[1]
    ELSE TRUE

Datetimes == {<<n>> : n \in 0..MaxTime}

InitTime ==
    /\ current_time \in Datetimes
    /\ start_time \in Datetimes \cup {<<>>}
    /\ end_time \in Datetimes \cup {<<>>}
    /\ within = <<>>
    /\ GraphAtRest
    /\ IdAtRest
    /\ PipeAtRest
    /\ GeoAtRest
    /\ MoreAtRest

\* is_time_within_range returns
IsTimeWithinRange ==
    /\ within = <<>>
    /\ within' = <<is_time_within_range(current_time, start_time, end_time)>>
    /\ UNCHANGED <<current_time, start_time, end_time, graphVars, idVars, geoVars, pipeVars, moreVars>>

NextTime == IsTimeWithinRange

SpecTime == InitTime /\ [][NextTime]_vars

\* C22: is_time_within_range(t, start, end) is true exactly when (start is
\* absent or start <= t) and (end is absent or t <= end): both bounds are
\* inclusive, a missing bound is open-ended, and with no bounds the result
\* is true.
C22_InclusiveRange ==
    \A k \in DOMAIN within :
        within[k] <=> /\ (start_time = <<>> \/ start_time[1] <= current_time[1])
                      /\ (end_time = <<>> \/ current_time[1] <= end_time[1])

\* the call has returned True for a time on the end bound
C22_Witness ==
    /\ within = <<TRUE>>
    /\ start_time # <<>>
    /\ end_time = current_time
    /\ start_time[1] < end_time[1]

\* C34: append decisions do not depend on task interleaving.  For two facts
\* of the same input that satisfy an append criterion with respect to each
\* other (same subjects, relation and context, different objects), the
\* final graph has a single hyperedge holding both, for every interleaving
\* of the two sentence tasks' probe and write steps, the same as when they
\* are processed one after the other.
C34_InterleavingIndependent ==
    (/\ all_sentences_complete(task)
     /\ text_to_cypher_pipeline # None
     /\ failed_temporal_facts = <<>>
     /\ Len(successful_temporal_facts) = 2
     /\ all_structured_data \in {<<JohnLikesCats, JohnLikesDogs>>, <<JohnLikesDogs, JohnLikesCats>>}
     /\ Range(successful_temporal_facts) = {JohnLikesCats, JohnLikesDogs}
     /\ applied_modifications = {})
    => /\ Cardinality(DOMAIN graph.Hyperedge) = 1
       /\ \A h \in DOMAIN graph.Hyperedge : ObjIds(graph, h) = {"cats", "dogs"}
       /\ graph \in {ingest_fact(ingest_fact(EmptyGraph, JohnLikesCats), JohnLikesDogs),
                     ingest_fact(ingest_fact(EmptyGraph, JohnLikesDogs), JohnLikesCats)}

(***************************************************************************)
(* Ingestions only: temporal facts written one after the other, starting   *)
(* from the empty graph, and no modification.                              *)
(***************************************************************************)
NextIngest == IngestFact \/ IngestFails

SpecIngest == InitGraph /\ [][NextIngest]_vars

\* C35: hyperedge de-duplication.  After any sequence of sequential
\* temporal-fact ingestions starting from an empty graph, no two distinct
\* Hyperedge nodes have the same relation, the same subject set, the same
\* object set and the same set of contexts.
C35_NoDuplicateHyperedges ==
    \A h1, h2 \in DOMAIN graph.Hyperedge :
        (/\ graph.Hyperedge[h1].relation_type = graph.Hyperedge[h2].relation_type
         /\ SubjIds(graph, h1) = SubjIds(graph, h2)
         /\ ObjIds(graph, h1) = ObjIds(graph, h2)
         /\ ContextsOf(graph, h1) = ContextsOf(graph, h2))
        => h1 = h2

(***************************************************************************)
(* process_text.detect_modification_sentences, as the pipeline calls it:   *)
(* with_LLM_call is False.  A text is a sequence of atoms: a word, a space *)
(* or a full stop.                                                         *)
(***************************************************************************)
MaxText == 5           \* atoms of a text

OldAtRest == GraphAtRest /\ IdAtRest /\ PipeAtRest /\ GeoAtRest /\ TimeAtRest

modification_indicators ==
    {"actually", "in fact", "oops", "my mistake", "update", "correction", "modification"}

\* text.split(sep)
RECURSIVE split(_, _)
split(s, sep) ==
    IF \A i \in DOMAIN s : s[i] # sep THEN <<s>>
    ELSE LET i == CHOOSE k \in DOMAIN s : s[k] = sep /\ \A j \in 1..(k - 1) : s[j] # sep
         IN  <<SubSeq(s, 1, i - 1)>> \o split(SubSeq(s, i + 1, Len(s)), sep)

\* s.strip() of a sequence of atoms
RECURSIVE strip_spaces(_)
strip_spaces(s) ==
    IF s = <<>> THEN s
    ELSE IF Head(s) = " " THEN strip_spaces(Tail(s))
    ELSE IF s[Len(s)] = " " THEN strip_spaces(SubSeq(s, 1, Len(s) - 1))
    ELSE s

\* [s.strip() for s in text.split('.') if s.strip()]
sentences_of(t) ==
    LET stripped == [i \in DOMAIN split(t, ".") |-> strip_spaces(split(t, ".")[i])]
    IN  SelectSeq(stripped, LAMBDA x : x # <<>>)

\* any(indicator in sentence.lower() for indicator in modification_indicators)
is_modification(sentence) ==
    \E i \in DOMAIN sentence : lower(sentence[i]) \in modification_indicators

\* '. '.join(sentences)
RECURSIVE join_sentences(_)
join_sentences(sentences) ==
    IF sentences = <<>> THEN <<>>
    ELSE IF Len(sentences) = 1 THEN sentences[1]
    ELSE sentences[1] \o <<".", " ">> \o join_sentences(Tail(sentences))

\* the keyword pass and its return: (regular_text, modification_text)
detect_modification_sentences(t) ==
    LET sentences == sentences_of(t)
        regular_sentences == SelectSeq(sentences, LAMBDA x : ~is_modification(x))
        modification_sentences == SelectSeq(sentences, is_modification)
    IN  <<IF regular_sentences # <<>> THEN join_sentences(regular_sentences) ELSE t,
          IF modification_sentences # <<>> THEN join_sentences(modification_sentences) ELSE <<>>>>

Texts == UNION {[1..n -> {"John", "Actually", "oops", " ", "."}] : n \in 0..MaxText}

InitDetect ==
    /\ text \in Texts
    /\ detected = <<>>
    /\ OldAtRest
    /\ ExceptDetectAtRest

\* detect_modification_sentences(text) returns
DetectModificationSentences ==
    /\ detected = <<>>
    /\ detected' = <<detect_modification_sentences(text)>>
    /\ UNCHANGED <<text, oldVars, exceptDetect>>

NextDetect == DetectModificationSentences

SpecDetect == InitDetect /\ [][NextDetect]_vars

\* C31: the classifier partitions the input.  Every sentence of the text
\* appears in exactly one of regular_text and modification_text, it is in
\* modification_text exactly when it contains one of the keywords
\* (case-insensitive), and no sentence classified as a modification is also
\* among the regular sentences, including when every sentence is a
\* modification.
C31_Partition ==
    \A k \in DOMAIN detected :
        LET regular == Range(sentences_of(detected[k][1]))
            modification == Range(sentences_of(detected[k][2]))
        IN  \A sentence \in Range(sentences_of(text)) :
                /\ sentence \in modification <=> is_modification(sentence)
                /\ sentence \in regular <=> ~is_modification(sentence)

(***************************************************************************)
(* Facts that differ only in how a missing time bound is written, ingested *)
(* one after the other: the create path and the append path's contexts.    *)
(***************************************************************************)
MaxIngested == 3       \* facts ingested in one behaviour

\* a missing bound as the extraction can write it
MissingBound == {None, "", "null"}

NullFacts ==
    [subjects : {<<"John">>}, objects : {<<"cats">>, <<"dogs">>}, relation_type : {"likes"},
     temporal_intervals : {<<Interval(s, e)>> : s \in {"t1", None}, e \in {"t2", None}},
     spatial_contexts : {<<>>, <<Work>>}]

InitNull ==
    /\ fact0 \in NullFacts
    /\ fact = fact0
    /\ ingested = <<>>
    /\ GraphAtRest
    /\ PipeAtRest
    /\ GeoAtRest
    /\ TimeAtRest
    /\ ExceptNullAtRest

\* the next fact writes a missing bound in another way, or has other objects
RewriteBound ==
    /\ \/ \E b \in MissingBound :
            /\ fact.temporal_intervals[1].start_time \in MissingBound
            /\ fact' = [fact EXCEPT !.temporal_intervals[1].start_time = b]
       \/ \E b \in MissingBound :
            /\ fact.temporal_intervals[1].end_time \in MissingBound
            /\ fact' = [fact EXCEPT !.temporal_intervals[1].end_time = b]
       \/ \E o \in {<<"cats">>, <<"dogs">>} : fact' = [fact EXCEPT !.objects = o]
    /\ UNCHANGED <<fact0, ingested, graphVars, geoVars, timeVars, pipeVars, exceptNull>>

\* the fact is generated and written
IngestWritten ==
    /\ Len(ingested) < MaxIngested
    /\ graph' = ingest_fact(graph, fact)
    /\ ingested' = Append(ingested, fact.temporal_intervals[1])
    /\ UNCHANGED <<fact, fact0, last, ops, geoVars, timeVars, pipeVars, exceptNull>>

NextNull == RewriteBound \/ IngestWritten

SpecNull == InitNull /\ [][NextNull]_vars

\* a time bound with every way of writing "missing" taken as one
normalised(t) == IF t \in MissingBound THEN None ELSE t

\* C32: null normalisation of context identity.  Contexts that differ only
\* in how a missing time bound is written (None, '' or 'null'), with the
\* same location name, type and coordinates, get the same context id: the
\* store holds one context for them, and its from_time / to_time of the
\* missing bound is null.
C32_NullNormalisation ==
    /\ \A c1, c2 \in DOMAIN graph.Context :
          (/\ normalised(graph.Context[c1].from_time) = normalised(graph.Context[c2].from_time)
           /\ normalised(graph.Context[c1].to_time) = normalised(graph.Context[c2].to_time)
           /\ graph.Context[c1].location_name = graph.Context[c2].location_name
           /\ graph.Context[c1].spatial_type = graph.Context[c2].spatial_type
           /\ graph.Context[c1].coordinates = graph.Context[c2].coordinates)
          => c1 = c2
    /\ \A c \in DOMAIN graph.Context :
          /\ graph.Context[c].from_time \notin {"", "null"}
          /\ graph.Context[c].to_time \notin {"", "null"}
    /\ \A k \in DOMAIN ingested :
          \E c \in DOMAIN graph.Context :
              /\ graph.Context[c].from_time = normalised(ingested[k].start_time)
              /\ graph.Context[c].to_time = normalised(ingested[k].end_time)

\* the same missing end bound has been ingested written in the three ways
C32_Witness ==
    /\ Len(ingested) = 3
    /\ {ingested[k].end_time : k \in DOMAIN ingested} = MissingBound
    /\ Cardinality(DOMAIN graph.Context) = 1

(***************************************************************************)
(* main.process_text_stream.event_generator: run_pipeline puts events on   *)
(* an unbounded queue and sets done in its finally; the generator gets     *)
(* from the queue with a timeout of 250 ms and yields what it gets.  The   *)
(* client reads the stream to its end.                                     *)
(***************************************************************************)
MaxEvents == 3         \* events run_pipeline puts before its last one

\* the event number n put on the queue
Event(type) == [type |-> type, n |-> Len(put) + 1]

\* one timeout too early: the loop is left as soon as done is set
leaves_loop_when_done(is_set, q) == is_set

\* if done.is_set() and queue.empty(): break
leaves_loop(is_set, q) == is_set /\ q = <<>>

\* the queue holds the initial messages when the task is created
InitStream ==
    /\ \E info \in {<<[type |-> "info", n |-> 1]>>,
                    <<[type |-> "info", n |-> 1], [type |-> "info", n |-> 2]>>} :
          sse_queue = info /\ put = info
    /\ done = FALSE
    /\ yielded = <<>>
    /\ run_pipeline = "running"
    /\ event_generator = "get"
    /\ OldAtRest
    /\ ExceptStreamAtRest

\* progress_cb or the loop over the facts: await queue.put({"type": "stage", ...})
PutStage ==
    /\ run_pipeline = "running"
    /\ Len(put) < MaxEvents + 2
    /\ sse_queue' = Append(sse_queue, Event("stage"))
    /\ put' = Append(put, Event("stage"))
    /\ UNCHANGED <<done, yielded, run_pipeline, event_generator, oldVars, exceptStream>>

\* the pipeline is exhausted (complete) or has raised (error): the last put
PutLast ==
    /\ run_pipeline = "running"
    /\ \E type \in {"complete", "error"} :
          /\ sse_queue' = Append(sse_queue, Event(type))
          /\ put' = Append(put, Event(type))
    /\ run_pipeline' = "finally"
    /\ UNCHANGED <<done, yielded, event_generator, oldVars, exceptStream>>

\* finally: done.set(), and the task is finished
DoneSet ==
    /\ run_pipeline = "finally"
    /\ done' = TRUE
    /\ run_pipeline' = "finished"
    /\ UNCHANGED <<sse_queue, put, yielded, event_generator, oldVars, exceptStream>>

\* queue.get() returns an item within the timeout: yield sse_event(item)
GetItem ==
    /\ event_generator = "get"
    /\ sse_queue # <<>>
    /\ yielded' = Append(yielded, Head(sse_queue))
    /\ sse_queue' = Tail(sse_queue)
    /\ UNCHANGED <<done, put, run_pipeline, event_generator, oldVars, exceptStream>>

\* 250 ms have passed with the getter waiting on the empty queue
TimeoutError ==
    /\ event_generator = "get"
    /\ sse_queue = <<>>
    /\ event_generator' = "except"
    /\ UNCHANGED <<sse_queue, done, put, yielded, run_pipeline, oldVars, exceptStream>>

\* except asyncio.TimeoutError: break or continue
BreakOrContinue ==
    /\ event_generator = "except"
    /\ event_generator' = IF leaves_loop(done, sse_queue) THEN "ended" ELSE "get"
    /\ UNCHANGED <<sse_queue, done, put, yielded, run_pipeline, oldVars, exceptStream>>

Consumer == GetItem \/ TimeoutError \/ BreakOrContinue

NextStream == PutStage \/ PutLast \/ DoneSet \/ GetItem \/ TimeoutError \/ BreakOrContinue

SpecStream == InitStream /\ [][NextStream]_vars

\* the event loop resumes the generator whenever it can go on
SpecStreamLive == SpecStream /\ WF_vars(Consumer)

\* C33: the SSE consumer delivers every event the producer enqueued, in
\* enqueue order, before the stream ends, and the stream ends after the
\* producer task has finished: the consumer leaves its loop only when the
\* done flag is set and the queue is empty, and it eventually does so once
\* the producer has finished.
C33_StreamDeliversAll ==
    /\ [](/\ yielded \o sse_queue = put
          /\ event_generator = "ended" =>
                /\ done
                /\ sse_queue = <<>>
                /\ yielded = put
                /\ run_pipeline = "finished")
    /\ (run_pipeline = "finished") ~> (event_generator = "ended")

\* the stream has ended after a stage event and the last event
C33_Witness ==
    /\ event_generator = "ended"
    /\ Len(yielded) >= 3
    /\ yielded[Len(yielded)].type = "complete"
    /\ \E k \in DOMAIN yielded : yielded[k].type = "stage"

(***************************************************************************)
(* The lazy initialisation of main.py: each endpoint tests the module-     *)
(* level handle, constructs the pipeline into it and then awaits           *)
(* initialise_neo4j_connection.  Requests are served one after the other.  *)
(* The handle is <<>> (None) or holds the pipeline object, with connected   *)
(* telling whether Neo4jStorage.connect() has returned True for it.        *)
(***************************************************************************)
MaxRequests == 3       \* requests in one behaviour

Endpoints == {"ask", "process_text", "process_text_stream"}

\* the request ends with a response
respond(status) ==
    /\ responses' = Append(responses, [endpoint |-> request.endpoint, status |-> status])
    /\ request' = [endpoint |-> "none", at |-> "idle"]

InitLazy ==
    /\ handle = <<>>
    /\ request = [endpoint |-> "none", at |-> "idle"]
    /\ responses = <<>>
    /\ live = 0
    /\ OldAtRest
    /\ ExceptLazyAtRest

\* a request arrives: if text_to_cypher_pipeline is None, the pipeline is
\* constructed and assigned, and the connection attempt begins
StartRequest ==
    /\ request.at = "idle"
    /\ Len(responses) < MaxRequests
    /\ \E endpoint \in Endpoints :
          IF handle = <<>>
          THEN /\ handle' = <<[connected |-> FALSE]>>
               /\ request' = [endpoint |-> endpoint, at |-> "connecting"]
          ELSE /\ request' = [endpoint |-> endpoint, at |-> "serving"]
               /\ UNCHANGED handle
    /\ UNCHANGED <<responses, live, oldVars, exceptLazy>>

\* initialise_neo4j_connection returns True
ConnectionEstablished ==
    /\ request.at = "connecting"
    /\ handle' = <<[connected |-> TRUE]>>
    /\ live' = live + 1
    /\ request' = [request EXCEPT !.at = "serving"]
    /\ UNCHANGED <<responses, oldVars, exceptLazy>>

\* initialise_neo4j_connection returns False or raises: _ensure_pipeline_and_openai
\* raises RuntimeError, process_text returns an error response, the stream
\* yields an error event when False was returned and goes on without a
\* database when the attempt raised
ConnectionFails ==
    /\ request.at = "connecting"
    /\ \E raised \in BOOLEAN :
          IF request.endpoint = "process_text_stream" /\ raised
          THEN /\ request' = [request EXCEPT !.at = "serving"]
               /\ UNCHANGED responses
          ELSE respond("error")
    /\ UNCHANGED <<handle, live, oldVars, exceptLazy>>

\* the request is served with the handle as it is
Serve ==
    /\ request.at = "serving"
    /\ respond("success")
    /\ UNCHANGED <<handle, live, oldVars, exceptLazy>>

NextLazy == StartRequest \/ ConnectionEstablished \/ ConnectionFails \/ Serve

SpecLazy == InitLazy /\ [][NextLazy]_vars

\* C36: lazy initialisation invariant.  Whenever the module-level pipeline
\* handle is non-null at the start of a request, its Neo4j connection was
\* established successfully; a connection attempt that fails leaves the
\* handle unset, so that the next request initialises again; and over any
\* sequence of requests at most one live connection is cached.
C36_LazyInitialisation ==
    /\ (request.at = "idle" /\ handle # <<>>) => handle[1].connected
    /\ (request.at = "idle" /\ responses # <<>> /\ live = 0) => handle = <<>>
    /\ live <= 1

(***************************************************************************)
(* backend/main.py: _run_function_calling_loop.  Each iteration asks the   *)
(* model for a tool, executes the first tool call, appends one entry to    *)
(* the trace and asks the validator; the two model calls raise when the    *)
(* API does not answer with status 200.                                    *)
(***************************************************************************)
MaxLoopsArg == 7       \* the max_loops arguments tried are -MaxLoopsArg..MaxLoopsArg

LoopArgs == (0 - MaxLoopsArg)..MaxLoopsArg

min(a, b) == IF a <= b THEN a ELSE b

\* the lower clamp alone
loops_uncapped(n) == max(1, n)

\* loops = max(1, min(5, max_loops))
loops(n) == max(1, min(5, n))

\* the function returns a dictionary
return(valid, descriptor) ==
    /\ returned' = <<[valid |-> valid, descriptor |-> descriptor, trace |-> trace']>>
    /\ calling' = "returned"

InitLoop ==
    /\ max_loops \in LoopArgs
    /\ loop_idx = 0
    /\ trace = <<>>
    /\ executed = 0
    /\ validations = <<>>
    /\ calling = "select"
    /\ returned = <<>>
    /\ OldAtRest
    /\ ExceptLoopAtRest

\* step 1: the assistant message carries a tool call
ToolSelected ==
    /\ calling = "select"
    /\ loop_idx < loops(max_loops)
    /\ calling' = "execute"
    /\ UNCHANGED <<max_loops, loop_idx, trace, executed, validations, returned, oldVars, exceptLoop>>

\* step 1: the assistant message carries no tool call
NoToolSelected ==
    /\ calling = "select"
    /\ loop_idx < loops(max_loops)
    /\ UNCHANGED trace
    /\ return(FALSE, "Model did not select a tool")
    /\ UNCHANGED <<max_loops, loop_idx, executed, validations, oldVars, exceptLoop>>

\* step 2: execute_tool, then trace.append
ExecuteTool ==
    /\ calling = "execute"
    /\ executed' = executed + 1
    /\ trace' = Append(trace, [loop |-> loop_idx])
    /\ calling' = "validate"
    /\ UNCHANGED <<max_loops, loop_idx, validations, returned, oldVars, exceptLoop>>

\* step 3: the validator's answer; invalid JSON counts as not valid
Validate ==
    /\ calling = "validate"
    /\ \E is_valid \in BOOLEAN :
          /\ validations' = Append(validations, is_valid)
          /\ IF is_valid
             THEN /\ UNCHANGED <<trace, loop_idx>>
                  /\ return(TRUE, "descriptor")
             ELSE /\ loop_idx' = loop_idx + 1
                  /\ calling' = "select"
                  /\ UNCHANGED <<trace, returned>>
    /\ UNCHANGED <<max_loops, executed, oldVars, exceptLoop>>

\* range(loops) is exhausted: intermediate or "No valid answer found"
LoopExhausted ==
    /\ calling = "select"
    /\ loop_idx >= loops(max_loops)
    /\ UNCHANGED trace
    /\ \E intermediate \in {"", "descriptor"} :
          return(FALSE, IF intermediate # "" THEN intermediate ELSE "No valid answer found")
    /\ UNCHANGED <<max_loops, loop_idx, executed, validations, oldVars, exceptLoop>>

\* chat_completion_full or chat_completion raises: the call ends without a
\* return value
ApiError ==
    /\ calling \in {"select", "validate"}
    /\ loop_idx < loops(max_loops)
    /\ calling' = "raised"
    /\ UNCHANGED <<max_loops, loop_idx, trace, executed, validations, returned, oldVars, exceptLoop>>

NextLoop ==
    \/ ToolSelected
    \/ NoToolSelected
    \/ ExecuteTool
    \/ Validate
    \/ LoopExhausted
    \/ ApiError

SpecLoop == InitLoop /\ [][NextLoop]_vars

\* every await of the loop comes back: the HTTP calls have a timeout
SpecLoopLive == SpecLoop /\ WF_vars(NextLoop)

\* C37: the function-calling loop terminates after at most
\* min(5, max(1, max_loops)) tool executions: it returns valid=true at the
\* first iteration whose validation is valid, valid=false at once when the
\* model selects no tool, valid=false after the last iteration otherwise, and
\* the trace holds exactly one entry per executed tool call.
C37_LoopTerminates ==
    /\ [](/\ executed <= min(5, max(1, max_loops))
          /\ Len(trace) = executed
          /\ \A i \in 1..Len(trace) : trace[i].loop = i - 1
          /\ \A i \in 1..Len(validations) : validations[i] => i = Len(validations) /\ returned # <<>>
          /\ returned # <<>> =>
                /\ returned[1].trace = trace
                /\ returned[1].valid <=>
                      (validations # <<>> /\ validations[Len(validations)])
                /\ ~returned[1].valid =>
                      \/ /\ returned[1].descriptor = "Model did not select a tool"
                         /\ Len(validations) = executed
                         /\ executed < min(5, max(1, max_loops))
                      \/ /\ returned[1].descriptor # "Model did not select a tool"
                         /\ executed = min(5, max(1, max_loops))
                         /\ Len(validations) = executed)
    /\ <>(calling \in {"returned", "raised"})

\* five iterations, none valid: the call returns valid=false with five entries
C37_Witness ==
    /\ max_loops > 5
    /\ returned # <<>>
    /\ ~returned[1].valid
    /\ Len(returned[1].trace) = 5
    /\ Len(validations) = 5

(***************************************************************************)
(* backend/tools.py: the query_facts tool, and Neo4jStorage.               *)
(* query_spatiotemporal of kh_core/neo4j_storage.py.  Times compare as     *)
(* strings; a comparison with null is not true.  The store is connected,   *)
(* no area_coordinates are given and the limit is not reached.             *)
(***************************************************************************)
MaxStored == 2         \* facts written before the tool is called

\* bool(x) of a string or None
given(x) == x \notin {None, ""}

\* bool(x) of a list or None; <<>> is both None and the empty list
given_list(x) == x # <<>>

\* Cypher's a <= b for two strings
str_le(a, b) == Rank(a) <= Rank(b)

\* the WHERE conditions query_spatiotemporal puts on a context
context_matches(c, start, end, location_names, include_temporally_unconstrained) ==
    /\ (given(start) \/ given(end)) =>
          /\ start # None =>
                IF include_temporally_unconstrained
                THEN c.to_time = None \/ str_le(start, c.to_time)
                ELSE c.to_time # None /\ str_le(start, c.to_time)
          /\ end # None =>
                IF include_temporally_unconstrained
                THEN c.from_time = None \/ str_le(c.from_time, end)
                ELSE c.from_time # None /\ str_le(c.from_time, end)
    /\ given_list(location_names) => c.location_name \in Range(location_names)

\* the set of hyperedge ids query_spatiotemporal returns
query_spatiotemporal(g, start, end, location_names, include_temporally_unconstrained) ==
    IF ~given(start) /\ ~given(end) /\ ~given_list(location_names)
    THEN DOMAIN g.Hyperedge
    ELSE {h \in DOMAIN g.Hyperedge :
            \E c \in ContextsOf(g, h) \cap DOMAIN g.Context :
                context_matches(g.Context[c], start, end, location_names,
                                include_temporally_unconstrained)}

\* start_time and end_time after "if at_time and (not start_time and not end_time)"
start_of(a) == IF given(a.at_time) /\ ~given(a.start_time) /\ ~given(a.end_time)
               THEN a.at_time ELSE a.start_time
end_of(a) == IF given(a.at_time) /\ ~given(a.start_time) /\ ~given(a.end_time)
             THEN a.at_time ELSE a.end_time

\* step 1 of query_facts: the pre-filter
pre_filter(g, a) ==
    query_spatiotemporal(g, start_of(a), end_of(a), a.location_names,
                         a.include_temporally_unconstrained)

\* the ids of the facts query_facts returns: "h.id IN $hyperedge_ids" is a
\* WHERE part only "if filtered_ids"
query_facts(g, a) ==
    {h \in DOMAIN g.Hyperedge :
        /\ pre_filter(g, a) # {} => h \in pre_filter(g, a)
        /\ given_list(a.subjects) => SubjIds(g, h) \cap Range(a.subjects) # {}}

QueryableFacts ==
    [subjects : {<<"John">>, <<"Mary">>}, objects : {<<"cats">>}, relation_type : {"likes"},
     temporal_intervals : {<<I1>>, <<I2>>},
     spatial_contexts : {<<>>, <<Home>>, <<Work>>}]

ToolArguments ==
    [subjects : {<<>>, <<"John">>},
     start_time : {None, "t2", "t4"},
     end_time : {None, "t2"},
     at_time : {None, "t1"},
     location_names : {<<>>, <<"home">>, <<"work">>},
     include_temporally_unconstrained : BOOLEAN]

InitQuery ==
    /\ tool_arguments = <<>>
    /\ filtered_ids = {}
    /\ tool_result = {}
    /\ OldAtRest
    /\ ExceptQueryAtRest

\* a temporal fact is written to the store
StoreFact ==
    /\ ops < MaxStored
    /\ tool_arguments = <<>>
    /\ \E F \in QueryableFacts : graph' = ingest_fact(graph, F)
    /\ last' = [op |-> "ingest", ok |-> TRUE, removed |-> FALSE, matched |-> FALSE]
    /\ ops' = ops + 1
    /\ UNCHANGED <<idVars, geoVars, timeVars, pipeVars, moreVars>>

\* execute_tool("query_facts", arguments, pipeline)
QueryFacts ==
    /\ tool_arguments = <<>>
    /\ \E a \in ToolArguments :
          /\ tool_arguments' = <<a>>
          /\ filtered_ids' = pre_filter(graph, a)
          /\ tool_result' = query_facts(graph, a)
    /\ UNCHANGED <<oldVars, exceptQuery>>

NextQuery == StoreFact \/ QueryFacts

SpecQuery == InitQuery /\ [][NextQuery]_vars

\* a temporal or spatial filter is supplied
filter_supplied(a) ==
    given(a.start_time) \/ given(a.end_time) \/ given(a.at_time) \/ given_list(a.location_names)

\* C38: query_facts honours its spatiotemporal filters.  When a temporal or
\* spatial filter is supplied, the id of every returned fact belongs to the
\* set query_spatiotemporal returned for those filters, so that no fact is
\* returned when that set is empty.
C38_FiltersHonoured ==
    (tool_arguments # <<>> /\ filter_supplied(tool_arguments[1])) =>
        tool_result \subseteq filtered_ids
====
